---- MODULE Spec2Model ----
(***************************************************************************)
(* Model of the mock protocol test harness of prism-mcp-tools              *)
(* (prism-test-utils).  The first part models MockServer                   *)
(* (src/prism-test-utils/src/mock_server.rs): the per-method expectation   *)
(* queues, the received log, the optional default handler, and the         *)
(* operations expect_request, expect_requests, with_default_response,      *)
(* handle, handle_notification, verify and reset, and its query and        *)
(* assertion operations.  The second part models MockClient                *)
(* (mock_client.rs) and the third TestHarness (harness.rs).  The fourth    *)
(* part models one MockServer shared by several callers behind a mutex,    *)
(* and the last the handlers of the inspector (src/mcp-inspector) on their *)
(* shared AppState.                                                        *)
(***************************************************************************)
EXTENDS Integers, Sequences, FiniteSets, TLC

(***************************************************************************)
(* Bounds of the model.                                                    *)
(***************************************************************************)
\* most expectations queued at one time, over all methods (Spec)
MaxQueue == 2
\* longest received log (Spec)
MaxLog == 2
\* most expectations queued at one time, over all methods (SpecFifo)
MaxFifoQueue == 2
\* longest received log (SpecFifo)
MaxFifoLog == 3
\* longest scenario that is run, reset and repeated (SpecRepeat)
MaxScript == 3
\* longest request queue of a client (SpecClient)
MaxClientQueue == 2
\* most requests that enter the queue of a client (SpecClient)
MaxEnqueued == 3
\* most ids a client hands out (SpecClient)
MaxClientIds == 3
\* most responses a client keeps (SpecClient)
MaxClientResponses == 2
\* most messages the transport holds between two harness calls
\* (SpecHarness)
MaxTransport == 3
\* most messages the server was given (SpecHarness)
MaxHandled == 2
\* most messages the transport holds between two harness calls
\* (SpecSession)
MaxSessionTransport == 4
\* most messages the server was given (SpecSession)
MaxSessionHandled == 3
\* most requests a test queues in the client of the harness (SpecSession)
MaxSessionQueued == 1
\* the callers that share one server (SpecConcurrent)
MaxCallers == 2
\* most expectations queued before the callers start (SpecConcurrent)
MaxSharedQueue == 2
\* HTTP requests the inspector serves at one time (SpecInspector)
MaxRequests == 2
\* WebSocket connections the inspector has open at one time (SpecInspector)
MaxSockets == 1
\* most expectations queued at one time, over all methods (SpecQuery)
MaxQueryQueue == 2
\* longest received log (SpecQuery)
MaxQueryLog == 2

(***************************************************************************)
(* Values: Option<T> and serde_json::Value.                                *)
(***************************************************************************)
None == <<>>
Some(v) == <<v>>

JNull == [null |-> TRUE]
JNum(n) == [num |-> n]
JStr(s) == [str |-> s]

JSONRPC_VERSION == "2.0"

\* the JSON-RPC code of "method not found"
METHOD_NOT_FOUND == -32601

(***************************************************************************)
(* Inputs.                                                                 *)
(***************************************************************************)
Methods == {"tools/list", "multi"}

RequestIds == {JNum(1), JNum(2)}

\* JsonRpcRequest { jsonrpc, id, method, params }
JsonRpcRequest(id, method, params) ==
    [jsonrpc |-> JSONRPC_VERSION, id |-> id, method |-> method, params |-> params]

\* JsonRpcNotification { jsonrpc, method, params }
JsonRpcNotification(method, params) ==
    [jsonrpc |-> JSONRPC_VERSION, method |-> method, params |-> params]

\* JsonRpcResponse { jsonrpc, id, result, error }
JsonRpcResponse(id, result, error) ==
    [jsonrpc |-> JSONRPC_VERSION, id |-> id, result |-> result, error |-> error]

\* ErrorObject { code, message, data }
ErrorObject(code, message, data) ==
    [code |-> code, message |-> message, data |-> data]

\* JsonRpcResponse::success_value(id, result)
success_value(id, result) == JsonRpcResponse(Some(id), Some(result), None)

\* requests a test delivers to handle
Requests == {JsonRpcRequest(id, m, None) : id \in RequestIds, m \in Methods}

\* notifications a test delivers to handle_notification
Notifications ==
    { JsonRpcNotification("multi", Some(JStr("p"))),
      JsonRpcNotification("tools/list", None) }

\* canned responses a test queues; their stored ids differ from each other,
\* one of them equals a request id and one equals none
CannedResponses ==
    { success_value(JNum(1), [call |-> 1]),
      JsonRpcResponse(Some(JNum(9)), None,
                      Some(ErrorObject(-32000, "canned failure", None))) }

\* the default handlers a test installs: closures of type
\* Fn(&JsonRpcRequest) -> JsonRpcResponse
DefaultHandlers == {"echo_method", "fixed_reply"}

\* what a default handler returns for a request
CallDefaultHandler(h, request) ==
    IF h = "echo_method"
    THEN success_value(request.id, [method |-> request.method])
    ELSE success_value(JNum(0), [fixed |-> TRUE])

(***************************************************************************)
(* State of one MockServer, and what the last operation was and returned.  *)
(***************************************************************************)
VARIABLES
    expectations,       \* HashMap<String, VecDeque<JsonRpcResponse>>
    received_requests,  \* Vec<JsonRpcRequest>
    ordered,            \* bool
    default_response,   \* Option<Box<dyn Fn>>
    op,                 \* the last operation called, with its arguments
    ret                 \* what the last operation returned

\* Bookkeeping of the specifications SpecFifo and SpecRepeat: what the test
\* did, written down from the arguments and the results of the calls.
VARIABLES
    fifo_added,     \* per method: the responses a test queued and has not been
                    \* served before the latest expect call, in the order added
    fifo_calls,     \* per method: the handle calls since the latest expect call
    phase,          \* "first" run of the scenario or "second" run after reset
    script,         \* the operations of the first run, in order
    first_returns,  \* what the operations of the first run returned
    first_log,      \* the received log at the end of the first run
    second_returns  \* what the operations of the second run returned

\* MockClient (mock_client.rs): the client a test drives, and the client a
\* TestHarness owns
VARIABLES
    request_queue,  \* VecDeque<JsonRpcRequest>
    client_responses, \* Vec<JsonRpcResponse>, the field responses
    id_counter,     \* u64
    client_info     \* ClientInfo

\* Bookkeeping of the specification SpecClient, written down from the
\* arguments and the results of the calls.
VARIABLES
    pc,             \* "idle", or "send_all" while the loop of send_all runs
    collected,      \* the local Vec of send_all: the responses of this call
    assigned_ids,   \* the ids next_id handed out, in order
    enqueued,       \* the requests that entered the queue, in order
    dequeued,       \* the number of requests that left the queue
    queue_at_call,  \* the queue and
    responses_at_call \* the responses when the running send_all was called

\* TestHarness (harness.rs)
VARIABLES
    initialized,    \* bool
    transport,      \* the messages the MemoryTransport holds, oldest first
    handled         \* the messages the McpServer under test was given

\* the callers that share one MockServer behind a mutex
VARIABLES
    callers         \* per caller: where it is in its call of handle, the
                    \* request it passes and the response it was returned

\* The inspector (src/mcp-inspector): the AppState its handlers share, and
\* the handlers that are running
VARIABLES
    client,          \* AppState.client: RwLock<Option<Arc<InspectorClient>>>
    connection_info, \* AppState.connection_info:
                     \* RwLock<Option<ConnectionInfo>>
    requests,        \* per HTTP request: the handler that serves it, the
                     \* statement it is at and the response it returned last
    sockets          \* per WebSocket: whether handle_socket is running for it

server == <<expectations, received_requests, ordered, default_response>>
fifo == <<fifo_added, fifo_calls>>
repeat == <<phase, script, first_returns, first_log, second_returns>>
mock_client == <<request_queue, client_responses, id_counter, client_info>>
client_log == <<pc, collected, assigned_ids, enqueued, dequeued,
               queue_at_call, responses_at_call>>
test_harness == <<initialized, transport, handled>>
inspector == <<client, connection_info, requests, sockets>>
client_side == <<mock_client, client_log, test_harness, callers,
                inspector>>
vars == <<server, op, fifo, repeat, client_side, ret>>

Unit == [unit |-> TRUE]

\* the callers of a server that is shared
Callers == 1 .. MaxCallers

\* the HTTP requests and the WebSockets the inspector serves
InspectorRequests == 1 .. MaxRequests
Sockets == 1 .. MaxSockets

\* no handler is serving the request
IdleRequest == [handler |-> "none", at |-> "idle", response |-> "none"]

\* a caller that has not called handle
IdleCaller == [state |-> "idle", request |-> None, response |-> None,
               tier |-> "none"]

\* MockClient::new: the client_info of a client built without one
DefaultClientInfo == [name |-> "Test Client", version |-> "1.0.0"]

\* the queue of a method as handle and verify see it: an absent key has no
\* expectation
QueueOf(exp, method) == IF method \in DOMAIN exp THEN exp[method] ELSE <<>>

RECURSIVE SumLen(_, _)
SumLen(exp, keys) ==
    IF keys = {} THEN 0
    ELSE LET k == CHOOSE x \in keys : TRUE
         IN  Len(exp[k]) + SumLen(exp, keys \ {k})

\* the number of expectations queued, over all methods
Queued(exp) == SumLen(exp, DOMAIN exp)

(***************************************************************************)
(* MockServer::new / new_ordered                                           *)
(***************************************************************************)
Init ==
    /\ expectations = <<>>
    /\ received_requests = <<>>
    /\ ordered \in BOOLEAN
    /\ default_response = None
    /\ op = [name |-> "new"]
    /\ ret = Unit
    /\ fifo_added = [m \in Methods |-> <<>>]
    /\ fifo_calls = [m \in Methods |-> 0]
    /\ phase = "first"
    /\ script = <<>>
    /\ first_returns = <<>>
    /\ first_log = <<>>
    /\ second_returns = <<>>
    /\ request_queue = <<>>
    /\ client_responses = <<>>
    /\ id_counter = 1
    /\ client_info = DefaultClientInfo
    /\ pc = "idle"
    /\ collected = <<>>
    /\ queue_at_call = <<>>
    /\ responses_at_call = <<>>
    /\ assigned_ids = <<>>
    /\ enqueued = <<>>
    /\ dequeued = 0
    /\ initialized = FALSE
    /\ transport = <<>>
    /\ handled = <<>>
    /\ callers = [c \in Callers |-> IdleCaller]
    /\ client = None
    /\ connection_info = None
    /\ requests = [r \in InspectorRequests |-> IdleRequest]
    /\ sockets = [s \in Sockets |-> "closed"]

(***************************************************************************)
(* MockServer::expect_request                                              *)
(***************************************************************************)
\* entry(method).or_insert_with(VecDeque::new)
EntryOrInsert(exp, method) ==
    IF method \in DOMAIN exp THEN exp ELSE exp @@ (method :> <<>>)

\* mutant: the response is put at the front of the queue
PushBack_Front(queue, response) == <<response>> \o queue

\* queue.push_back(response)
PushBack(queue, response) == Append(queue, response)

ExpectInsert(exp, method, response) ==
    LET e == EntryOrInsert(exp, method)
    IN  [e EXCEPT ![method] = PushBack(@, response)]

ExpectRequest(method, response) ==
    /\ expectations' = ExpectInsert(expectations, method, response)
    /\ op' = [name |-> "expect_request", method |-> method,
              response |-> response]
    /\ ret' = Unit
    /\ UNCHANGED <<received_requests, ordered, default_response>>

(***************************************************************************)
(* MockServer::expect_requests                                             *)
(***************************************************************************)
RECURSIVE PushAll(_, _)
\* for response in responses { queue.push_back(response) }
PushAll(queue, responses) ==
    IF responses = <<>> THEN queue
    ELSE PushAll(PushBack(queue, Head(responses)), Tail(responses))

\* mutant: the responses replace the queue of the method
ExpectInsertMany_Replace(exp, method, responses) ==
    LET e == EntryOrInsert(exp, method)
    IN  [e EXCEPT ![method] = responses]

ExpectInsertMany(exp, method, responses) ==
    LET e == EntryOrInsert(exp, method)
    IN  [e EXCEPT ![method] = PushAll(@, responses)]

ExpectRequests(method, responses) ==
    /\ expectations' = ExpectInsertMany(expectations, method, responses)
    /\ op' = [name |-> "expect_requests", method |-> method,
              responses |-> responses]
    /\ ret' = Unit
    /\ UNCHANGED <<received_requests, ordered, default_response>>

(***************************************************************************)
(* MockServer::with_default_response                                       *)
(***************************************************************************)
WithDefaultResponse(handler) ==
    /\ default_response' = Some(handler)
    /\ op' = [name |-> "with_default_response", handler |-> handler]
    /\ ret' = Unit
    /\ UNCHANGED <<expectations, received_requests, ordered>>

(***************************************************************************)
(* MockServer::handle                                                      *)
(***************************************************************************)
\* mutant: the request is put at the front of the log
PushLog_Front(log, request) == <<request>> \o log

\* self.received_requests.push(request)
PushLog(log, request) == Append(log, request)

\* mutant: the error of the queued response is dropped with its id
UpdateResponseId_DropError(response, request) ==
    [response EXCEPT !.id = Some(request.id), !.error = None]

\* response.id = Some(request.id.clone())
UpdateResponseId(response, request) ==
    [response EXCEPT !.id = Some(request.id)]

\* mutant: the error carries the code of "invalid request"
MethodNotFound_InvalidRequest(request) ==
    JsonRpcResponse(Some(request.id), None,
        Some(ErrorObject(-32600,
                         <<"Unexpected method: ", request.method>>, None)))

\* the method-not-found error response
MethodNotFound(request) ==
    JsonRpcResponse(Some(request.id), None,
        Some(ErrorObject(METHOD_NOT_FOUND,
                         <<"Unexpected method: ", request.method>>, None)))

\* queue.pop_front(): the queue left behind
PopFrontRest(queue) == IF queue = <<>> THEN queue ELSE Tail(queue)

\* mutant: handle pops the front of every queue
HandleExpectations_PopAll(exp, request) ==
    [m \in DOMAIN exp |-> PopFrontRest(exp[m])]

\* the expectations after handle: get_mut(&request.method), then pop_front
HandleExpectations(exp, request) ==
    IF request.method \in DOMAIN exp
    THEN [exp EXCEPT ![request.method] = PopFrontRest(@)]
    ELSE exp

\* mutant: the default handler is consulted before the expectations
HandleOutcome_DefaultFirst(exp, dflt, request) ==
    IF dflt # None
    THEN [response |-> CallDefaultHandler(dflt[1], request),
          tier |-> "default", handler_called |-> TRUE]
    ELSE IF request.method \in DOMAIN exp /\ exp[request.method] # <<>>
    THEN [response |-> UpdateResponseId(Head(exp[request.method]), request),
          tier |-> "expectation", handler_called |-> FALSE]
    ELSE [response |-> MethodNotFound(request),
          tier |-> "not_found", handler_called |-> FALSE]

\* the outcome of handle: the response returned, the tier that produced it
\* and whether the default handler was invoked
HandleOutcome(exp, dflt, request) ==
    IF request.method \in DOMAIN exp /\ exp[request.method] # <<>>
    THEN [response |-> UpdateResponseId(Head(exp[request.method]), request),
          tier |-> "expectation", handler_called |-> FALSE]
    ELSE IF dflt # None
    THEN [response |-> CallDefaultHandler(dflt[1], request),
          tier |-> "default", handler_called |-> TRUE]
    ELSE [response |-> MethodNotFound(request),
          tier |-> "not_found", handler_called |-> FALSE]

Handle(request) ==
    LET out == HandleOutcome(expectations, default_response, request)
    IN  /\ received_requests' = PushLog(received_requests, request)
        /\ expectations' = HandleExpectations(expectations, request)
        /\ op' = [name |-> "handle", request |-> request,
                  tier |-> out.tier, handler_called |-> out.handler_called]
        /\ ret' = out.response
        /\ UNCHANGED <<ordered, default_response>>

(***************************************************************************)
(* MockServer::handle_notification                                         *)
(***************************************************************************)
\* mutant: the params of the notification are dropped
NotificationEntry_NoParams(notification) ==
    [jsonrpc |-> notification.jsonrpc, id |-> JNull,
     method |-> notification.method, params |-> None]

\* the request a notification is recorded as
NotificationEntry(notification) ==
    [jsonrpc |-> notification.jsonrpc, id |-> JNull,
     method |-> notification.method, params |-> notification.params]

HandleNotification(notification) ==
    /\ received_requests' =
           PushLog(received_requests, NotificationEntry(notification))
    /\ op' = [name |-> "handle_notification", notification |-> notification]
    /\ ret' = Unit
    /\ UNCHANGED <<expectations, ordered, default_response>>

(***************************************************************************)
(* MockServer::verify                                                      *)
(***************************************************************************)
\* the entries of the unmet list: format!("{} ({} remaining)", method, len)
UnmetEntry(method, queue) == [method |-> method, remaining |-> Len(queue)]

\* mutant: a queue with one expectation left is taken for empty
UnmetMethods_OffByOne(exp) == {m \in DOMAIN exp : Len(exp[m]) > 1}

\* mutant: every key of the map is reported, whatever its queue holds
UnmetMethods_AllKeys(exp) == DOMAIN exp

\* the methods verify pushes to unmet
UnmetMethods(exp) == {m \in DOMAIN exp : exp[m] # <<>>}

\* the orders in which the iteration over the HashMap can visit the keys
Orderings(S) ==
    {s \in [1..Cardinality(S) -> S] : \A i, j \in DOMAIN s : i # j => s[i] # s[j]}

\* mutant: verify fails when the log holds a notification
VerifyResults_ReadsLog(exp) ==
    IF \E i \in DOMAIN received_requests : received_requests[i].id = JNull
    THEN {[ok |-> FALSE, unmet |-> <<>>]}
    ELSE IF UnmetMethods(exp) = {}
    THEN {[ok |-> TRUE]}
    ELSE {[ok |-> FALSE,
           unmet |-> [i \in DOMAIN order |->
                         UnmetEntry(order[i], exp[order[i]])]] :
          order \in Orderings(UnmetMethods(exp))}

\* the results verify can return
VerifyResults(exp) ==
    IF UnmetMethods(exp) = {}
    THEN {[ok |-> TRUE]}
    ELSE {[ok |-> FALSE,
           unmet |-> [i \in DOMAIN order |->
                         UnmetEntry(order[i], exp[order[i]])]] :
          order \in Orderings(UnmetMethods(exp))}

\* mutant: verify drains the queues it reports
Verify_Draining(result) ==
    /\ result \in VerifyResults(expectations)
    /\ expectations' = <<>>
    /\ op' = [name |-> "verify"]
    /\ ret' = result
    /\ UNCHANGED <<received_requests, ordered, default_response>>

Verify(result) ==
    /\ result \in VerifyResults(expectations)
    /\ op' = [name |-> "verify"]
    /\ ret' = result
    /\ UNCHANGED <<expectations, received_requests, ordered, default_response>>

(***************************************************************************)
(* MockServer::reset                                                       *)
(***************************************************************************)
\* mutant: reset leaves the expectations
ClearExpectations_Keep(exp) == exp

\* self.expectations.clear()
ClearExpectations(exp) == <<>>

\* mutant: reset leaves the received log
ClearLog_Keep(log) == log

\* self.received_requests.clear()
ClearLog(log) == <<>>

Reset ==
    /\ expectations' = ClearExpectations(expectations)
    /\ received_requests' = ClearLog(received_requests)
    /\ op' = [name |-> "reset"]
    /\ ret' = Unit
    /\ UNCHANGED <<ordered, default_response>>

(***************************************************************************)
(* MockServer::request_count                                               *)
(***************************************************************************)
\* mutant: the notifications in the log are not counted
RECURSIVE CountMethod_RequestsOnly(_, _)
CountMethod_RequestsOnly(log, method) ==
    IF log = <<>> THEN 0
    ELSE (IF Head(log).method = method /\ Head(log).id # JNull THEN 1 ELSE 0)
         + CountMethod_RequestsOnly(Tail(log), method)

RECURSIVE CountMethod(_, _)
CountMethod(log, method) ==
    IF log = <<>> THEN 0
    ELSE (IF Head(log).method = method THEN 1 ELSE 0)
         + CountMethod(Tail(log), method)

request_count(method) == CountMethod(received_requests, method)

(***************************************************************************)
(* Spec: a test calls the operations of one MockServer in any order.       *)
(***************************************************************************)
\* the lists a test passes to expect_requests: empty, one or two responses
ResponseLists ==
    UNION {[1..n -> CannedResponses] : n \in 0..2}

DoExpectRequest ==
    \E method \in Methods, response \in CannedResponses :
        /\ Queued(expectations) < MaxQueue
        /\ ExpectRequest(method, response)
        /\ UNCHANGED <<fifo, repeat, client_side>>

DoExpectRequests ==
    \E method \in Methods, responses \in ResponseLists :
        /\ Queued(expectations) + Len(responses) <= MaxQueue
        /\ ExpectRequests(method, responses)
        /\ UNCHANGED <<fifo, repeat, client_side>>

DoWithDefaultResponse ==
    \E handler \in DefaultHandlers :
        /\ WithDefaultResponse(handler)
        /\ UNCHANGED <<fifo, repeat, client_side>>

DoHandle ==
    \E request \in Requests :
        /\ Len(received_requests) < MaxLog
        /\ Handle(request)
        /\ UNCHANGED <<fifo, repeat, client_side>>

DoHandleNotification ==
    \E notification \in Notifications :
        /\ Len(received_requests) < MaxLog
        /\ HandleNotification(notification)
        /\ UNCHANGED <<fifo, repeat, client_side>>

DoVerify ==
    \E result \in VerifyResults(expectations) :
        /\ Verify(result)
        /\ UNCHANGED <<fifo, repeat, client_side>>

DoReset ==
    /\ Reset
    /\ UNCHANGED <<fifo, repeat, client_side>>

Next ==
    \/ DoExpectRequest
    \/ DoExpectRequests
    \/ DoWithDefaultResponse
    \/ DoHandle
    \/ DoHandleNotification
    \/ DoVerify
    \/ DoReset

Spec == Init /\ [][Next]_vars

(***************************************************************************)
(* SpecFifo: the same operations, and a record per method of the responses *)
(* the test queued (from the arguments of the expect calls) and of the     *)
(* number of handle calls since.                                           *)
(***************************************************************************)
\* the requests and the notification of this specification: the queues do
\* not depend on the id or the params of what is delivered
FifoRequests == {JsonRpcRequest(JNum(2), m, None) : m \in Methods}

FifoNotifications == {JsonRpcNotification("multi", Some(JStr("p")))}

\* MockServer::new
InitNew == Init /\ ~ordered

\* the responses of a method not served yet, then the ones queued now
StillQueued(method, responses) ==
    SubSeq(fifo_added[method], fifo_calls[method] + 1,
           Len(fifo_added[method])) \o responses

FifoExpectRequest ==
    \E method \in Methods, response \in CannedResponses :
        /\ Queued(expectations) < MaxFifoQueue
        /\ ExpectRequest(method, response)
        /\ fifo_added' = [fifo_added EXCEPT
                            ![method] = StillQueued(method, <<response>>)]
        /\ fifo_calls' = [fifo_calls EXCEPT ![method] = 0]
        /\ UNCHANGED <<repeat, client_side>>

FifoExpectRequests ==
    \E method \in Methods, responses \in ResponseLists :
        /\ Queued(expectations) + Len(responses) <= MaxFifoQueue
        /\ ExpectRequests(method, responses)
        /\ fifo_added' = [fifo_added EXCEPT
                            ![method] = StillQueued(method, responses)]
        /\ fifo_calls' = [fifo_calls EXCEPT ![method] = 0]
        /\ UNCHANGED <<repeat, client_side>>

FifoWithDefaultResponse ==
    \E handler \in DefaultHandlers :
        /\ WithDefaultResponse(handler)
        /\ UNCHANGED <<fifo, repeat, client_side>>

FifoHandle ==
    \E request \in FifoRequests :
        /\ Len(received_requests) < MaxFifoLog
        /\ Handle(request)
        /\ fifo_calls' = [fifo_calls EXCEPT ![request.method] = @ + 1]
        /\ UNCHANGED <<fifo_added, repeat, client_side>>

FifoHandleNotification ==
    \E notification \in FifoNotifications :
        /\ Len(received_requests) < MaxFifoLog
        /\ HandleNotification(notification)
        /\ UNCHANGED <<fifo, repeat, client_side>>

FifoReset ==
    /\ Reset
    /\ fifo_added' = [m \in Methods |-> <<>>]
    /\ fifo_calls' = [m \in Methods |-> 0]
    /\ UNCHANGED <<repeat, client_side>>

NextFifo ==
    \/ FifoExpectRequest
    \/ FifoExpectRequests
    \/ FifoWithDefaultResponse
    \/ FifoHandle
    \/ FifoHandleNotification
    \/ FifoReset

SpecFifo == InitNew /\ [][NextFifo]_vars

(***************************************************************************)
(* SpecRepeat: a test builds a server, runs a scenario of expect_request,  *)
(* expect_requests, handle and handle_notification calls, calls reset and  *)
(* runs the same scenario again.                                           *)
(***************************************************************************)
\* the calls a scenario is made of
ScenarioSteps ==
    {[name |-> "expect_request", method |-> m, response |-> r] :
        m \in Methods, r \in CannedResponses}
    \cup {[name |-> "expect_requests", method |-> m, responses |-> rs] :
        m \in Methods, rs \in [1..2 -> CannedResponses]}
    \cup {[name |-> "handle", request |-> request] : request \in FifoRequests}
    \cup {[name |-> "handle_notification", notification |-> n] :
        n \in FifoNotifications}

\* the call of one step of a scenario
RunStep(step) ==
    IF step.name = "expect_request"
    THEN ExpectRequest(step.method, step.response)
    ELSE IF step.name = "expect_requests"
    THEN ExpectRequests(step.method, step.responses)
    ELSE IF step.name = "handle"
    THEN Handle(step.request)
    ELSE HandleNotification(step.notification)

\* the server is built with a default handler, before the scenario
RepeatWithDefaultResponse ==
    \E handler \in DefaultHandlers :
        /\ phase = "first"
        /\ script = <<>>
        /\ default_response = None
        /\ WithDefaultResponse(handler)
        /\ UNCHANGED <<fifo, repeat, client_side>>

\* one more call of the first run
RepeatFirst ==
    \E step \in ScenarioSteps :
        /\ phase = "first"
        /\ Len(script) < MaxScript
        /\ RunStep(step)
        /\ script' = Append(script, step)
        /\ first_returns' = Append(first_returns, ret')
        /\ UNCHANGED <<fifo, phase, first_log, second_returns, client_side>>

\* the reset between the two runs
RepeatReset ==
    /\ phase = "first"
    /\ Reset
    /\ phase' = "second"
    /\ first_log' = received_requests
    /\ UNCHANGED <<fifo, script, first_returns, second_returns, client_side>>

\* the next call of the second run: the call the first run made there
RepeatSecond ==
    /\ phase = "second"
    /\ Len(second_returns) < Len(script)
    /\ RunStep(script[Len(second_returns) + 1])
    /\ second_returns' = Append(second_returns, ret')
    /\ UNCHANGED <<fifo, phase, script, first_returns, first_log,
                 client_side>>

NextRepeat ==
    \/ RepeatWithDefaultResponse
    \/ RepeatFirst
    \/ RepeatReset
    \/ RepeatSecond

SpecRepeat == InitNew /\ [][NextRepeat]_vars

(***************************************************************************)
(* Properties of MockServer under Spec.                                    *)
(***************************************************************************)
\* the method the last operation was called for
OpMethod(o) ==
    IF o.name = "handle" THEN o.request.method
    ELSE IF o.name = "handle_notification" THEN o.notification.method
    ELSE o.method

\* s is a prefix of t
IsPrefix(s, t) == Len(s) <= Len(t) /\ SubSeq(t, 1, Len(s)) = s

\* a response is one of the canned responses, up to its id
FromExpectation(response) ==
    \E r \in CannedResponses :
        response.result = r.result /\ response.error = r.error

\* C1: handle resolves a request in three tiers, in this order: a queued
\* expectation of the request's method (its front), else the result of the
\* default handler if one is installed, else the method-not-found error; the
\* default handler is not invoked while the method has a queued expectation.
C1_ThreeTierOrder ==
    [][op'.name = "handle" =>
        LET request == op'.request
            queue == QueueOf(expectations, request.method)
        IN  IF queue # <<>>
            THEN /\ ret'.result = Head(queue).result
                 /\ ret'.error = Head(queue).error
                 /\ ~op'.handler_called
            ELSE IF default_response # None
            THEN /\ ret' = CallDefaultHandler(default_response[1], request)
                 /\ op'.handler_called
            ELSE /\ ret'.error # None
                 /\ ret'.error[1].code = METHOD_NOT_FOUND
                 /\ ~op'.handler_called]_vars

\* C1 witness: a request answered from its queue while a default handler is
\* installed
C1_Witness ==
    /\ op.name = "handle"
    /\ default_response # None
    /\ FromExpectation(ret)
    /\ ~op.handler_called

\* C3 (as claimed): every response handle returns carries the id of the
\* request, in every tier
C3_ResponseCarriesRequestId ==
    op.name = "handle" => ret.id = Some(op.request.id)

\* C4: verify succeeds exactly when every queue is empty, and its error lists
\* exactly the methods with a non-empty queue, each once, with the number of
\* expectations remaining
C4_VerifyIffQueuesEmpty ==
    op.name = "verify" =>
        LET unmet == {m \in Methods : QueueOf(expectations, m) # <<>>}
        IN  /\ ret.ok <=> unmet = {}
            /\ ~ret.ok =>
                 /\ Len(ret.unmet) = Cardinality(unmet)
                 /\ {ret.unmet[i] : i \in DOMAIN ret.unmet} =
                      {[method |-> m,
                        remaining |-> Len(QueueOf(expectations, m))] :
                       m \in unmet}

\* C4 witness: verify fails with two methods unmet
C4_Witness ==
    /\ op.name = "verify"
    /\ ~ret.ok
    /\ Len(ret.unmet) = 2

\* C5: a handle, expect_request or expect_requests call for one method
\* leaves the queue of every other method as it was
C5_MethodsDoNotInterfere ==
    [][op'.name \in {"handle", "expect_request", "expect_requests"} =>
        \A other \in Methods \ {OpMethod(op')} :
            QueueOf(expectations', other) = QueueOf(expectations, other)]_vars

\* C5 witness: a request answered from its queue while the other method has
\* expectations queued
C5_Witness ==
    /\ op.name = "handle"
    /\ FromExpectation(ret)
    /\ \E other \in Methods \ {op.request.method} :
           QueueOf(expectations, other) # <<>>

\* C6: handle returns a response for every request, and with no queued
\* expectation of the method and no default handler that response has no
\* result, an error with code -32601 and the id of the request
C6_NotFoundResponse ==
    [][op'.name = "handle" =>
        /\ DOMAIN ret' = {"jsonrpc", "id", "result", "error"}
        /\ (QueueOf(expectations, op'.request.method) = <<>>
                /\ default_response = None) =>
             /\ ret'.result = None
             /\ ret'.error # None
             /\ ret'.error[1].code = -32601
             /\ ret'.id = Some(op'.request.id)]_vars

\* C6 witness: a request answered with the method-not-found error
C6_Witness ==
    /\ op.name = "handle"
    /\ default_response = None
    /\ ret.error # None
    /\ ret.error[1].code = -32601

\* C7: handle_notification appends one entry with the notification's method
\* and params and a null id, returns nothing and leaves the queues alone
C7_NotificationRecorded ==
    [][op'.name = "handle_notification" =>
        /\ received_requests' =
             Append(received_requests,
                    [jsonrpc |-> JSONRPC_VERSION, id |-> JNull,
                     method |-> op'.notification.method,
                     params |-> op'.notification.params])
        /\ ret' = Unit
        /\ expectations' = expectations]_vars

\* C7 witness: a notification for a method that has expectations queued
C7_Witness ==
    /\ op.name = "handle_notification"
    /\ QueueOf(expectations, op.notification.method) # <<>>
    /\ op.notification.params # None

\* C8: the received log is append-only between resets: handle appends its
\* request, handle_notification appends one entry, and every operation but
\* reset leaves the log it found as a prefix of the log it leaves
C8_LogAppendOnly ==
    [][/\ op'.name # "reset" => IsPrefix(received_requests, received_requests')
       /\ op'.name = "handle" =>
            received_requests' = received_requests \o <<op'.request>>
       /\ op'.name = "handle_notification" =>
            /\ Len(received_requests') = Len(received_requests) + 1
            /\ received_requests'[Len(received_requests')].id = JNull
       /\ op'.name \notin {"reset", "handle", "handle_notification"} =>
            received_requests' = received_requests]_vars

\* C8 witness: a request appended after a notification
C8_Witness ==
    /\ op.name = "handle"
    /\ Len(received_requests) = 2
    /\ received_requests[1].id = JNull
    /\ received_requests[2] = op.request

\* C9: after reset every queue and the log are empty: verify succeeds, each
\* request_count is 0, and the next handle call of any method is answered by
\* the default handler or with the method-not-found error
C9_ResetClears ==
    op.name = "reset" =>
        /\ \A m \in Methods : QueueOf(expectations, m) = <<>>
        /\ received_requests = <<>>
        /\ VerifyResults(expectations) = {[ok |-> TRUE]}
        /\ \A m \in Methods : request_count(m) = 0
        /\ \A request \in Requests :
             HandleOutcome(expectations, default_response, request).response
               = IF default_response # None
                 THEN CallDefaultHandler(default_response[1], request)
                 ELSE MethodNotFound(request)

\* C9 witness: a reset of a server that has a default handler
C9_Witness ==
    /\ op.name = "reset"
    /\ default_response # None

(***************************************************************************)
(* Properties of MockServer under SpecFifo.                                *)
(***************************************************************************)
\* C2: when the test queued N responses for a method, the i-th handle call
\* for it returns the i-th of them (up to the id) for i <= N, and a later
\* call returns the default handler's result, or the method-not-found
\* error when no default handler is set
C2_FifoThenFallThrough ==
    [][op'.name = "handle" =>
        LET request == op'.request
            added == fifo_added[request.method]
            i == fifo_calls'[request.method]
        IN  IF i <= Len(added)
            THEN ret' = [added[i] EXCEPT !.id = ret'.id]
            ELSE ret' = IF default_response # None
                        THEN CallDefaultHandler(default_response[1], request)
                        ELSE MethodNotFound(request)]_vars

\* C2 witness: two different responses queued for a method, and its third
\* handle call made
C2_Witness ==
    /\ op.name = "handle"
    /\ Len(fifo_added[op.request.method]) = 2
    /\ fifo_added[op.request.method][1] # fifo_added[op.request.method][2]
    /\ fifo_calls[op.request.method] = 3

(***************************************************************************)
(* Properties of MockServer under SpecRepeat.                              *)
(***************************************************************************)
\* C10: a scenario run again after reset returns what the first run
\* returned, call by call, and leaves the received log the first run left
C10_ResetAndRepeat ==
    phase = "second" =>
        /\ IsPrefix(second_returns, first_returns)
        /\ IsPrefix(received_requests, first_log)
        /\ Len(second_returns) = Len(script) =>
             /\ second_returns = first_returns
             /\ received_requests = first_log

\* C10 witness: a scenario of three calls run twice, in which a request was
\* answered from its queue and the first run left an expectation queued
C10_Witness ==
    /\ phase = "second"
    /\ Len(script) = 3
    /\ Len(second_returns) = 3
    /\ script[3].name = "handle"
    /\ FromExpectation(second_returns[3])
    /\ \E m \in Methods : QueueOf(expectations, m) # <<>>

(***************************************************************************)
(* MockServer: the query and assertion operations, all of them on &self.   *)
(***************************************************************************)
\* MockServer::received_requests
ReceivedRequests ==
    /\ op' = [name |-> "received_requests"]
    /\ ret' = received_requests
    /\ UNCHANGED server

\* MockServer::request_count
RequestCount(method) ==
    /\ op' = [name |-> "request_count", method |-> method]
    /\ ret' = request_count(method)
    /\ UNCHANGED server

\* self.received_requests.iter().any(|r| r.method == method)
AnyReceived(log, method) ==
    \E i \in DOMAIN log : log[i].method = method

\* MockServer::assert_request_received
AssertRequestReceived(method) ==
    /\ op' = [name |-> "assert_request_received", method |-> method]
    /\ ret' = IF AnyReceived(received_requests, method)
              THEN [ok |-> TRUE]
              ELSE [ok |-> FALSE, not_received |-> method]
    /\ UNCHANGED server

\* the loop of assert_request_with_params: a logged request of the method
\* whose params are Some(params)
AnyReceivedWithParams(log, method, params) ==
    \E i \in DOMAIN log :
        log[i].method = method /\ log[i].params = Some(params)

\* MockServer::assert_request_with_params
AssertRequestWithParams(method, params) ==
    /\ op' = [name |-> "assert_request_with_params", method |-> method,
              params |-> params]
    /\ ret' = IF AnyReceivedWithParams(received_requests, method, params)
              THEN [ok |-> TRUE]
              ELSE [ok |-> FALSE, not_received |-> method]
    /\ UNCHANGED server

(***************************************************************************)
(* SpecQuery: a test fills and drives one MockServer and calls the query   *)
(* and assertion operations in between.                                    *)
(***************************************************************************)
\* the params a test asks assert_request_with_params for
QueryParams == {JStr("p"), JStr("q")}

QueryExpectRequest ==
    \E method \in Methods, response \in CannedResponses :
        /\ Queued(expectations) < MaxQueryQueue
        /\ ExpectRequest(method, response)
        /\ UNCHANGED <<fifo, repeat, client_side>>

QueryWithDefaultResponse ==
    \E handler \in DefaultHandlers :
        /\ WithDefaultResponse(handler)
        /\ UNCHANGED <<fifo, repeat, client_side>>

\* fifo_calls counts, under SpecQuery, the calls of handle and of
\* handle_notification made for each method since the last reset
QueryHandle ==
    \E request \in FifoRequests :
        /\ Len(received_requests) < MaxQueryLog
        /\ Handle(request)
        /\ fifo_calls' = [fifo_calls EXCEPT ![request.method] = @ + 1]
        /\ UNCHANGED <<fifo_added, repeat, client_side>>

QueryHandleNotification ==
    \E notification \in FifoNotifications :
        /\ Len(received_requests) < MaxQueryLog
        /\ HandleNotification(notification)
        /\ fifo_calls' = [fifo_calls EXCEPT ![notification.method] = @ + 1]
        /\ UNCHANGED <<fifo_added, repeat, client_side>>

QueryVerify ==
    \E result \in VerifyResults(expectations) :
        /\ Verify(result)
        /\ UNCHANGED <<fifo, repeat, client_side>>

QueryReceivedRequests ==
    /\ ReceivedRequests
    /\ UNCHANGED <<fifo, repeat, client_side>>

QueryRequestCount ==
    \E method \in Methods :
        /\ RequestCount(method)
        /\ UNCHANGED <<fifo, repeat, client_side>>

QueryAssertRequestReceived ==
    \E method \in Methods :
        /\ AssertRequestReceived(method)
        /\ UNCHANGED <<fifo, repeat, client_side>>

QueryAssertRequestWithParams ==
    \E method \in Methods, params \in QueryParams :
        /\ AssertRequestWithParams(method, params)
        /\ UNCHANGED <<fifo, repeat, client_side>>

NextQuery ==
    \/ QueryExpectRequest
    \/ QueryWithDefaultResponse
    \/ QueryHandle
    \/ QueryHandleNotification
    \/ QueryVerify
    \/ QueryReceivedRequests
    \/ QueryRequestCount
    \/ QueryAssertRequestReceived
    \/ QueryAssertRequestWithParams
    \/ /\ Reset
       /\ fifo_calls' = [m \in Methods |-> 0]
       /\ UNCHANGED <<fifo_added, repeat, client_side>>

SpecQuery == Init /\ [][NextQuery]_vars

\* the query and assertion operations
QueryOps ==
    {"verify", "received_requests", "request_count",
     "assert_request_received", "assert_request_with_params"}

\* C11: a call of verify, received_requests, request_count,
\* assert_request_received or assert_request_with_params, whether it
\* returns Ok or Err, leaves the expectation queues, the received log and
\* the default handler as they were.
C11_QueriesReadOnly ==
    [][op'.name \in QueryOps
         => /\ expectations' = expectations
            /\ received_requests' = received_requests
            /\ default_response' = default_response]_vars

\* verify or assert_request_with_params has just returned Err, on a server
\* with a queued expectation, a received request and a default handler
C11_Witness ==
    /\ op.name \in {"verify", "assert_request_with_params"}
    /\ ~ret.ok
    /\ Queued(expectations) > 0
    /\ received_requests # <<>>
    /\ default_response # None

\* C32: a method whose queue is empty behaves as a method without a key.
\* handle returns, and leaves queued, what it would with the keys of the
\* empty queues removed from the map; for a method whose key is there with
\* an empty queue that is the default handler's result, or the
\* method-not-found error when no default handler is installed, and the
\* queue stays empty.  verify returns what it would with those keys
\* removed, and its error names no method with an empty queue.
C32_ConsumedAsNeverSet ==
    [][LET Unset(exp) ==
               [m \in {k \in DOMAIN exp : exp[k] # <<>>} |-> exp[m]]
           never == Unset(expectations)
       IN  /\ op'.name = "handle"
                => LET request == op'.request
                       out == HandleOutcome(never, default_response, request)
                   IN  /\ ret' = out.response
                       /\ op'.tier = out.tier
                       /\ Unset(expectations') =
                              Unset(HandleExpectations(never, request))
                       /\ (/\ request.method \in DOMAIN expectations
                           /\ expectations[request.method] = <<>>)
                            => /\ op'.tier \in {"default", "not_found"}
                               /\ ret' = IF default_response # None
                                         THEN CallDefaultHandler(
                                                  default_response[1], request)
                                         ELSE MethodNotFound(request)
                               /\ expectations' = expectations
           /\ op'.name = "verify"
                => /\ ret' \in VerifyResults(never)
                   /\ ~ret'.ok
                        => \A i \in DOMAIN ret'.unmet :
                              expectations[ret'.unmet[i].method] # <<>>]_vars

\* C32 witness: the second of two requests for a method fell through while
\* the key of the method was in the map with an empty queue
C32_Witness ==
    /\ op.name = "handle"
    /\ op.tier \in {"default", "not_found"}
    /\ op.request.method \in DOMAIN expectations
    /\ expectations[op.request.method] = <<>>
    /\ Len(received_requests) = 2
    /\ received_requests[1].method = op.request.method
    /\ received_requests[1].id # JNull

\* C33: what verify returns is determined by the queues alone: it is one of
\* the results the queues allow whatever the received log holds, and with
\* every queue empty it is Ok.
C33_VerifyIgnoresLog ==
    [][op'.name = "verify"
         => /\ ret' \in VerifyResults(expectations)
            /\ (\A m \in DOMAIN expectations : expectations[m] = <<>>)
                 => ret' = [ok |-> TRUE]]_vars

\* C33 witness: verify succeeds on a server whose log holds a request for a
\* method with a consumed queue and a notification
C33_Witness ==
    /\ op.name = "verify"
    /\ ret.ok
    /\ Len(received_requests) = 2
    /\ \E i, j \in DOMAIN received_requests :
          /\ received_requests[i].id = JNull
          /\ received_requests[j].id # JNull
          /\ received_requests[j].method \in DOMAIN expectations

\* C34: a response handle takes from an expectation is the queued response
\* with the id replaced by the id of the request: its result, its error and
\* its version are those of the front of the queue.
C34_OnlyIdOverwritten ==
    [][(op'.name = "handle" /\ op'.tier = "expectation")
         => LET queued == Head(expectations[op'.request.method])
            IN  /\ ret'.result = queued.result
                /\ ret'.error = queued.error
                /\ ret'.jsonrpc = queued.jsonrpc
                /\ ret'.id = Some(op'.request.id)
                /\ ret' = [queued EXCEPT !.id = Some(op'.request.id)]]_vars

\* C34 witness: a request answered with a queued error response whose
\* stored id was not the id of the request
C34_Witness ==
    /\ op.name = "handle"
    /\ op.tier = "expectation"
    /\ ret.error # None
    /\ ret.result = None
    /\ \E r \in CannedResponses : r.error = ret.error /\ r.id # ret.id

\* C38: request_count(M) returns the number of calls of handle and of
\* handle_notification made with method M since the server was built or
\* last reset, and assert_request_received(M) returns Ok exactly when that
\* number is at least 1.
C38_CountsRequestsAndNotifications ==
    [][/\ op'.name = "request_count" => ret' = fifo_calls[op'.method]
       /\ op'.name = "assert_request_received"
            => /\ ret'.ok <=> fifo_calls[op'.method] >= 1
               /\ ~ret'.ok => ret'.not_received = op'.method]_vars

\* C38 witness: request_count returns 2 for a method received once as a
\* request and once as a notification
C38_Witness ==
    /\ op.name = "request_count"
    /\ ret = 2
    /\ fifo_calls[op.method] = 2
    /\ \E i, j \in DOMAIN received_requests :
          /\ received_requests[i].method = op.method
          /\ received_requests[j].method = op.method
          /\ received_requests[i].id = JNull
          /\ received_requests[j].id # JNull

(***************************************************************************)
(* MockClient (src/prism-test-utils/src/mock_client.rs): the queue of      *)
(* outbound requests, the responses received, the id counter, and the      *)
(* operations queue_request, queue_custom, next_request, send_next,        *)
(* send_all, responses and clear_responses.                                *)
(***************************************************************************)
\* the requests the factory helpers build; their params do not matter to
\* the client and are written as a label
create_initialize_request ==
    JsonRpcRequest(JStr("init-1"), "initialize", Some(JStr("initialize-params")))

create_tool_call_request ==
    JsonRpcRequest(JStr("tool-1"), "tools/call", Some(JStr("tool-call-params")))

create_resource_read_request ==
    JsonRpcRequest(JStr("resource-1"), "resources/read",
                   Some(JStr("resource-read-params")))

create_prompt_get_request ==
    JsonRpcRequest(JStr("prompt-1"), "prompts/get",
                   Some(JStr("prompt-get-params")))

create_list_tools_request ==
    JsonRpcRequest(JStr("list-tools-1"), "tools/list", None)

create_list_resources_request ==
    JsonRpcRequest(JStr("list-resources-1"), "resources/list", None)

create_list_prompts_request ==
    JsonRpcRequest(JStr("list-prompts-1"), "prompts/list", None)

FactoryRequests ==
    { create_initialize_request, create_tool_call_request,
      create_resource_read_request, create_prompt_get_request,
      create_list_tools_request, create_list_resources_request,
      create_list_prompts_request }

\* mock_request(method) of lib.rs: a request with the placeholder id
mock_request(method) == JsonRpcRequest(JStr("test-123"), method, None)

\* the ids queue_request takes for a placeholder
IsPlaceholder(id) == id = JStr("test-123") \/ id = JNull

\* mutant: next_id forgets to advance the counter
next_id_NoIncrement(counter) == [id |-> JNum(counter), id_counter |-> counter]

\* MockClient::next_id: the id handed out and the counter afterwards
next_id(counter) == [id |-> JNum(counter), id_counter |-> counter + 1]

\* the methods create_mock_response answers with a success
MockedMethods == {"initialize", "tools/list", "resources/list", "prompts/list"}

\* mutant: every method is answered with a success
create_mock_response_AllSuccess(request) ==
    success_value(request.id, [mock |-> request.method])

\* MockClient::create_mock_response
create_mock_response(request) ==
    IF request.method \in MockedMethods
    THEN success_value(request.id, [mock |-> request.method])
    ELSE JsonRpcResponse(Some(request.id), None,
                         Some(ErrorObject(-32601, "Method not found", None)))

\* mutant: the request is pushed at the front
PushRequest_Front(queue, request) == <<request>> \o queue

\* VecDeque::push_back on the request queue
PushRequest(queue, request) == Append(queue, request)

\* MockClient::queue_request
QueueRequest(request) ==
    LET placeholder == IsPlaceholder(request.id)
        next == next_id(id_counter)
        queued == IF placeholder THEN [request EXCEPT !.id = next.id]
                  ELSE request
    IN  /\ pc = "idle"
        /\ request_queue' = PushRequest(request_queue, queued)
        /\ id_counter' = IF placeholder THEN next.id_counter ELSE id_counter
        /\ assigned_ids' = IF placeholder THEN Append(assigned_ids, next.id)
                           ELSE assigned_ids
        /\ enqueued' = Append(enqueued, queued)
        /\ op' = [name |-> "queue_request", request |-> request]
        /\ ret' = Unit
        /\ UNCHANGED <<client_responses, client_info, pc, collected, dequeued,
                       queue_at_call, responses_at_call>>

\* MockClient::queue_custom: the id is taken before JsonRpcRequest::new
\* serializes the params, and serializes says whether that succeeds
QueueCustom(method, params, serializes) ==
    LET next == next_id(id_counter)
        request == JsonRpcRequest(next.id, method, Some(params))
    IN  /\ pc = "idle"
        /\ id_counter' = next.id_counter
        /\ assigned_ids' = Append(assigned_ids, next.id)
        /\ IF serializes
           THEN /\ request_queue' = PushRequest(request_queue, request)
                /\ enqueued' = Append(enqueued, request)
                /\ ret' = [ok |-> Unit]
           ELSE /\ UNCHANGED <<request_queue, enqueued>>
                /\ ret' = [err |-> "serde_json::Error"]
        /\ op' = [name |-> "queue_custom", method |-> method,
                  params |-> params]
        /\ UNCHANGED <<client_responses, client_info, pc, collected, dequeued,
                       queue_at_call, responses_at_call>>

\* mutant: the request is taken from the back
pop_front_Back(queue) ==
    IF queue = <<>> THEN [item |-> None, queue |-> queue]
    ELSE [item |-> Some(queue[Len(queue)]),
          queue |-> SubSeq(queue, 1, Len(queue) - 1)]

\* VecDeque::pop_front: the request taken, if any, and the queue afterwards
pop_front(queue) ==
    IF queue = <<>> THEN [item |-> None, queue |-> queue]
    ELSE [item |-> Some(Head(queue)), queue |-> Tail(queue)]

\* MockClient::next_request
NextRequest ==
    LET popped == pop_front(request_queue)
    IN  /\ pc = "idle"
        /\ request_queue' = popped.queue
        /\ dequeued' = IF popped.item = None THEN dequeued ELSE dequeued + 1
        /\ op' = [name |-> "next_request"]
        /\ ret' = popped.item
        /\ UNCHANGED <<client_responses, id_counter, client_info, pc, collected,
                       assigned_ids, enqueued, queue_at_call,
                       responses_at_call>>

\* the body of MockClient::send_next: the queue, the responses and the value
\* returned
send_next(queue, received) ==
    LET popped == pop_front(queue)
    IN  IF popped.item = None
        THEN [request_queue |-> queue, responses |-> received, ret |-> None]
        ELSE LET response == create_mock_response(popped.item[1])
             IN  [request_queue |-> popped.queue,
                  responses |-> Append(received, response),
                  ret |-> Some(response)]

\* MockClient::send_next
SendNext ==
    LET sent == send_next(request_queue, client_responses)
    IN  /\ pc = "idle"
        /\ request_queue' = sent.request_queue
        /\ client_responses' = sent.responses
        /\ dequeued' = IF sent.ret = None THEN dequeued ELSE dequeued + 1
        /\ op' = [name |-> "send_next"]
        /\ ret' = sent.ret
        /\ UNCHANGED <<id_counter, client_info, pc, collected, assigned_ids,
                       enqueued, queue_at_call, responses_at_call>>

\* MockClient::send_all, the call: the local Vec is created
SendAllCall ==
    /\ pc = "idle"
    /\ pc' = "send_all"
    /\ collected' = <<>>
    /\ queue_at_call' = request_queue
    /\ responses_at_call' = client_responses
    /\ op' = [name |-> "send_all"]
    /\ ret' = Unit
    /\ UNCHANGED <<mock_client, assigned_ids, enqueued, dequeued>>

\* MockClient::send_all, one turn of the loop: send_next returned a response
SendAllLoop ==
    LET sent == send_next(request_queue, client_responses)
    IN  /\ pc = "send_all"
        /\ sent.ret # None
        /\ request_queue' = sent.request_queue
        /\ client_responses' = sent.responses
        /\ collected' = Append(collected, sent.ret[1])
        /\ dequeued' = dequeued + 1
        /\ UNCHANGED <<id_counter, client_info, pc, assigned_ids, enqueued,
                       queue_at_call, responses_at_call, op, ret>>

\* MockClient::send_all, the end of the loop: send_next returned None and
\* the local Vec is returned
SendAllReturn ==
    LET sent == send_next(request_queue, client_responses)
    IN  /\ pc = "send_all"
        /\ sent.ret = None
        /\ pc' = "idle"
        /\ ret' = collected
        /\ collected' = <<>>
        /\ queue_at_call' = <<>>
        /\ responses_at_call' = <<>>
        /\ UNCHANGED <<mock_client, assigned_ids, enqueued, dequeued, op>>

\* MockClient::responses
Responses ==
    /\ pc = "idle"
    /\ op' = [name |-> "responses"]
    /\ ret' = client_responses
    /\ UNCHANGED <<mock_client, client_log>>

\* MockClient::clear_responses
ClearResponses ==
    /\ pc = "idle"
    /\ client_responses' = <<>>
    /\ op' = [name |-> "clear_responses"]
    /\ ret' = Unit
    /\ UNCHANGED <<request_queue, id_counter, client_info, client_log>>

(***************************************************************************)
(* SpecClient: a test calls the operations of one MockClient in any order. *)
(***************************************************************************)
\* the requests a test passes to queue_request: built by a factory helper,
\* carrying a placeholder id, or carrying an id of the caller
ClientRequests ==
    { create_initialize_request,
      mock_request("tools/list"),
      JsonRpcRequest(JNull, "custom/method", None),
      JsonRpcRequest(JNum(1), "tools/call", None) }

\* the params a test passes to queue_custom, and whether they serialize
CustomParams == {[params |-> JStr("p"), serializes |-> TRUE],
                 [params |-> JStr("unserializable"), serializes |-> FALSE]}

ClientQueueRequest ==
    \E request \in ClientRequests :
        /\ Len(request_queue) < MaxClientQueue
        /\ Len(enqueued) < MaxEnqueued
        /\ id_counter <= MaxClientIds
        /\ QueueRequest(request)
        /\ UNCHANGED <<server, fifo, repeat, callers, inspector, test_harness>>

ClientQueueCustom ==
    \E method \in {"custom/method"}, p \in CustomParams :
        /\ Len(request_queue) < MaxClientQueue
        /\ Len(enqueued) < MaxEnqueued
        /\ id_counter <= MaxClientIds
        /\ QueueCustom(method, p.params, p.serializes)
        /\ UNCHANGED <<server, fifo, repeat, callers, inspector, test_harness>>

ClientNextRequest ==
    /\ NextRequest
    /\ UNCHANGED <<server, fifo, repeat, callers, inspector, test_harness>>

ClientSendNext ==
    /\ Len(client_responses) < MaxClientResponses
    /\ SendNext
    /\ UNCHANGED <<server, fifo, repeat, callers, inspector, test_harness>>

ClientSendAllCall ==
    /\ Len(client_responses) + Len(request_queue) <= MaxClientResponses
    /\ SendAllCall
    /\ UNCHANGED <<server, fifo, repeat, callers, inspector, test_harness>>

ClientSendAllLoop ==
    /\ SendAllLoop
    /\ UNCHANGED <<server, fifo, repeat, callers, inspector, test_harness>>

ClientSendAllReturn ==
    /\ SendAllReturn
    /\ UNCHANGED <<server, fifo, repeat, callers, inspector, test_harness>>

ClientResponses ==
    /\ Responses
    /\ UNCHANGED <<server, fifo, repeat, callers, inspector, test_harness>>

ClientClearResponses ==
    /\ ClearResponses
    /\ UNCHANGED <<server, fifo, repeat, callers, inspector, test_harness>>

NextClient ==
    \/ ClientQueueRequest
    \/ ClientQueueCustom
    \/ ClientNextRequest
    \/ ClientSendNext
    \/ ClientSendAllCall
    \/ ClientSendAllLoop
    \/ ClientSendAllReturn
    \/ ClientResponses
    \/ ClientClearResponses

SpecClient == InitNew /\ [][NextClient]_vars

(***************************************************************************)
(* Properties of MockClient under SpecClient.                              *)
(***************************************************************************)
\* the last request of the queue
LastQueued(queue) == queue[Len(queue)]

\* the call that has just returned gave its request an id of the client
AssignsId(o, r) ==
    \/ o.name = "queue_request" /\ IsPlaceholder(o.request.id)
    \/ o.name = "queue_custom" /\ "ok" \in DOMAIN r

C13_IdsUnique ==
    \A i, j \in DOMAIN enqueued :
        i # j => enqueued[i].id # enqueued[j].id

\* C14: a request built by a factory helper and passed to queue_request is
\* queued with an id of the counter in place of the id the helper gave it.
C14_FactoryIdReplaced ==
    [][op'.name = "queue_request" /\ op'.request \in FactoryRequests
         => /\ LastQueued(request_queue').id = JNum(id_counter)
            /\ LastQueued(request_queue').id # op'.request.id]_vars

\* C15: next_request on a queue that holds requests removes and returns the
\* oldest of them, the first that entered the queue and has not left it; on
\* an empty queue it returns None and the queue, the responses and the
\* counter stay as they were.
C15_NextRequestFifo ==
    [][op'.name = "next_request"
         => IF request_queue # <<>>
            THEN /\ ret' = Some(enqueued[dequeued + 1])
                 /\ request_queue'
                      = SubSeq(enqueued, dequeued + 2, Len(enqueued))
            ELSE /\ ret' = None
                 /\ UNCHANGED <<request_queue, client_responses,
                                id_counter>>]_vars

\* next_request has just returned the second request that entered the
\* queue, and a third is still queued
C15_Witness ==
    /\ op.name = "next_request"
    /\ dequeued = 2
    /\ ret = Some(enqueued[2])
    /\ enqueued[1] # enqueued[2]
    /\ request_queue # <<>>

\* C16: send_next on a queue that holds requests removes the oldest and
\* returns a response with the id of that request: a success, with a result
\* and no error, exactly when the method is initialize, tools/list,
\* resources/list or prompts/list, and otherwise an error of code -32601
\* with no result; on an empty queue it returns None and changes nothing.
C16_SendNextResponse ==
    [][op'.name = "send_next"
         => IF request_queue # <<>>
            THEN LET request == enqueued[dequeued + 1]
                     response == ret'[1]
                     success == response.result # None
                                /\ response.error = None
                 IN  /\ ret' # None
                     /\ request_queue' = Tail(request_queue)
                     /\ request = Head(request_queue)
                     /\ response.id = Some(request.id)
                     /\ success <=> request.method \in
                            {"initialize", "tools/list", "resources/list",
                             "prompts/list"}
                     /\ ~success => /\ response.result = None
                                    /\ response.error # None
                                    /\ response.error[1].code = -32601
            ELSE /\ ret' = None
                 /\ UNCHANGED <<mock_client, client_log>>]_vars

\* send_next has just answered a request of a method it does not know with
\* the error, after it answered one it knows
C16_Witness ==
    /\ op.name = "send_next"
    /\ ret # None
    /\ ret[1].error # None
    /\ Len(client_responses) = 2
    /\ client_responses[1].result # None

\* C17: a send_all that was called returns after one turn of its loop per
\* request queued at the call: while it runs, the next turn or the return is
\* possible and every turn shortens the queue by one; when it returns the
\* queue is empty, the value returned holds one response per request queued
\* at the call, the i-th with the id of the i-th request, and the responses
\* of the client are the ones it had followed by the ones returned.
C17_SendAll ==
    /\ [](pc = "send_all"
            => /\ ENABLED (SendAllLoop \/ SendAllReturn)
               /\ Len(collected) + Len(request_queue) = Len(queue_at_call))
    /\ [][IF pc = "send_all" /\ pc' = "idle"
          THEN /\ request_queue' = <<>>
               /\ Len(ret') = Len(queue_at_call)
               /\ \A i \in DOMAIN queue_at_call :
                      ret'[i].id = Some(queue_at_call[i].id)
               /\ client_responses' = responses_at_call \o ret'
          ELSE pc = "send_all"
                 => Len(request_queue') = Len(request_queue) - 1]_vars

\* send_all has just returned the responses of two requests with different
\* ids
C17_Witness ==
    /\ pc = "idle"
    /\ op.name = "send_all"
    /\ Len(ret) = 2
    /\ ret[1].id # ret[2].id
    /\ request_queue = <<>>

(***************************************************************************)
(* TestHarness (src/prism-test-utils/src/harness.rs): the initialized      *)
(* flag, the transport, the client and the server under test, and the      *)
(* operations initialize, send_request, send_notification, call_tool,      *)
(* read_resource, get_prompt, list_tools and reset.  MemoryTransport and   *)
(* McpServer are not part of the sources: the transport is the ordered     *)
(* message pipe of the transport contract, whose write and read can fail,  *)
(* and the server is any handler, whose answer is an input of the call.    *)
(***************************************************************************)
\* JsonRpcMessage::Request / Response / Notification
Message(kind, body) == [kind |-> kind, body |-> body]

\* MockClient::create_initialized_notification
create_initialized_notification ==
    JsonRpcNotification("notifications/initialized", Some(JStr("{}")))

\* McpResult: Ok(value) and Err(McpError)
Ok(value) == [ok |-> value]
Err(kind, message) == [err |-> [kind |-> kind, message |-> message]]
IsOk(result) == "ok" \in DOMAIN result

\* transport.write(message): the pipe with the message after the ones it
\* holds
TransportWrite(pipe, message) == Append(pipe, message)

\* transport.read(): Ok(Some(oldest message)), or Ok(None) on an empty pipe
TransportRead(pipe) ==
    IF pipe = <<>> THEN [message |-> None, pipe |-> pipe]
    ELSE [message |-> Some(Head(pipe)), pipe |-> Tail(pipe)]

\* what the transport and the server do during one call: whether the write
\* of the message succeeds, whether the read fails, finds no message
\* available or gives a message, what the server answers to a request, and
\* whether the write of the response succeeds
Fates ==
    {f \in [write : BOOLEAN, read : {"error", "none", "message"},
            handler : {"error", "result", "undecodable", "no_result"},
            reply : BOOLEAN] :
        \* what a call never gets to is left at one value
        /\ ~f.write => f.read = "message"
        /\ (~f.write \/ f.read # "message") => f.handler = "result"
        /\ f.handler = "error" => f.reply}

\* the call in which nothing fails and the server answers with a result
\* that decodes
NoFault ==
    [write |-> TRUE, read |-> "message", handler |-> "result", reply |-> TRUE]

\* the same for a notification, which the server only takes
NotifyFates ==
    {f \in [write : BOOLEAN, read : {"error", "none", "message"}] :
        ~f.write => f.read = "message"}

\* server.handle_request(req): the response of a server that answers, with
\* an ErrorObject ("no_result"), with neither a result nor an error
\* ("malformed"), or with a result that decodes or does not
HandlerResponse(req, answer) ==
    IF answer = "no_result"
    THEN JsonRpcResponse(Some(req.id), None,
                         Some(ErrorObject(METHOD_NOT_FOUND, "Method not found",
                                          None)))
    ELSE IF answer = "malformed"
    THEN JsonRpcResponse(Some(req.id), None, None)
    ELSE success_value(req.id, [decodes |-> answer = "result"])

\* TestHarness::send_request: the transport, the messages the server was
\* given and the value returned
send_request(pipe, given, request, fate) ==
    LET written == TransportWrite(pipe, Message("request", request))
        read == TransportRead(written)
        here(p, g, result) == [transport |-> p, handled |-> g,
                               result |-> result]
    IN  IF ~fate.write
        THEN here(pipe, given, Err("transport", "Failed to write request"))
        ELSE IF fate.read = "error"
        THEN here(written, given, Err("transport", "Failed to read request"))
        ELSE IF fate.read = "none" \/ read.message = None
        THEN here(written, given, Err("transport", "No message available"))
        ELSE IF read.message[1].kind # "request"
        THEN here(read.pipe, given, Err("protocol", "Expected request message"))
        ELSE LET req == read.message[1].body
                 seen == Append(given, read.message[1])
                 response == HandlerResponse(req, fate.handler)
             IN  IF fate.handler = "error"
                 THEN here(read.pipe, seen, Err("handler", "handle_request"))
                 ELSE IF ~fate.reply
                 THEN here(read.pipe, seen,
                           Err("transport", "Failed to write response"))
                 ELSE here(TransportWrite(read.pipe,
                                          Message("response", response)),
                           seen, Ok(response))

\* mutant: the server is given the message read, of whatever kind
send_notification_AnyKind(pipe, given, notification, fate) ==
    LET written == TransportWrite(pipe, Message("notification", notification))
        read == TransportRead(written)
        here(p, g, result) == [transport |-> p, handled |-> g,
                               result |-> result]
    IN  IF ~fate.write
        THEN here(pipe, given, Err("transport", "Failed to write notification"))
        ELSE IF fate.read = "error"
        THEN here(written, given,
                  Err("transport", "Failed to read notification"))
        ELSE IF fate.read = "none" \/ read.message = None
        THEN here(written, given, Err("transport", "No message available"))
        ELSE here(read.pipe, Append(given, read.message[1]), Ok(Unit))

\* TestHarness::send_notification: the transport, the messages the server
\* was given and the value returned
send_notification(pipe, given, notification, fate) ==
    LET written == TransportWrite(pipe, Message("notification", notification))
        read == TransportRead(written)
        here(p, g, result) == [transport |-> p, handled |-> g,
                               result |-> result]
    IN  IF ~fate.write
        THEN here(pipe, given, Err("transport", "Failed to write notification"))
        ELSE IF fate.read = "error"
        THEN here(written, given,
                  Err("transport", "Failed to read notification"))
        ELSE IF fate.read = "none" \/ read.message = None
        THEN here(written, given, Err("transport", "No message available"))
        ELSE IF read.message[1].kind # "notification"
        THEN here(read.pipe, given,
                  Err("protocol", "Expected notification message"))
        ELSE here(read.pipe, Append(given, read.message[1]), Ok(Unit))

\* mutant: any result is taken as the typed result
Decode_Lenient(response, messages) ==
    IF response.result = None
    THEN Err("protocol", messages.no_result)
    ELSE Ok(response.result[1])

\* response.result.ok_or_else(..)? and serde_json::from_value(result): the
\* typed result of a response, or the protocol error
Decode(response, messages) ==
    IF response.result = None
    THEN Err("protocol", messages.no_result)
    ELSE IF ~response.result[1].decodes
    THEN Err("protocol", messages.undecodable)
    ELSE Ok(response.result[1])

\* mutant: the flag is set before the notification is sent
Initialize_ReadyBeforeNotification(fate, notified) ==
    LET sent == send_request(transport, handled, create_initialize_request,
                             fate)
        decoded == IF IsOk(sent.result)
                   THEN Decode(sent.result.ok,
                               [no_result |->
                                    "Initialize response has no result",
                                undecodable |->
                                    "Failed to parse initialize result"])
                   ELSE sent.result
        told == send_notification(sent.transport, sent.handled,
                                  create_initialized_notification, notified)
    IN  /\ op' = [name |-> "initialize"]
        /\ IF ~IsOk(decoded)
           THEN /\ transport' = sent.transport
                /\ handled' = sent.handled
                /\ ret' = decoded
                /\ UNCHANGED initialized
           ELSE /\ transport' = told.transport
                /\ handled' = told.handled
                /\ initialized' = TRUE
                /\ ret' = IF IsOk(told.result) THEN decoded ELSE told.result
        /\ UNCHANGED <<mock_client, client_log>>

\* mutant: a call of initialize that fails clears the flag
Initialize_FailureClearsFlag(fate, notified) ==
    LET sent == send_request(transport, handled, create_initialize_request,
                             fate)
        decoded == IF IsOk(sent.result)
                   THEN Decode(sent.result.ok,
                               [no_result |->
                                    "Initialize response has no result",
                                undecodable |->
                                    "Failed to parse initialize result"])
                   ELSE sent.result
        told == send_notification(sent.transport, sent.handled,
                                  create_initialized_notification, notified)
    IN  /\ op' = [name |-> "initialize"]
        /\ IF ~IsOk(decoded)
           THEN /\ transport' = sent.transport
                /\ handled' = sent.handled
                /\ ret' = decoded
                /\ initialized' = FALSE
           ELSE /\ transport' = told.transport
                /\ handled' = told.handled
                /\ initialized' = IsOk(told.result)
                /\ ret' = IF IsOk(told.result) THEN decoded ELSE told.result
        /\ UNCHANGED <<mock_client, client_log>>

\* mutant: the notification is sent whatever the request came to
Initialize_NotifyAlways(fate, notified) ==
    LET sent == send_request(transport, handled, create_initialize_request,
                             fate)
        decoded == IF IsOk(sent.result)
                   THEN Decode(sent.result.ok,
                               [no_result |->
                                    "Initialize response has no result",
                                undecodable |->
                                    "Failed to parse initialize result"])
                   ELSE sent.result
        told == send_notification(sent.transport, sent.handled,
                                  create_initialized_notification, notified)
    IN  /\ op' = [name |-> "initialize"]
        /\ transport' = told.transport
        /\ handled' = told.handled
        /\ IF IsOk(decoded) /\ IsOk(told.result)
           THEN initialized' = TRUE /\ ret' = decoded
           ELSE /\ ret' = IF IsOk(decoded) THEN told.result ELSE decoded
                /\ UNCHANGED initialized
        /\ UNCHANGED <<mock_client, client_log>>

\* TestHarness::initialize
Initialize(fate, notified) ==
    LET sent == send_request(transport, handled, create_initialize_request,
                             fate)
        decoded == IF IsOk(sent.result)
                   THEN Decode(sent.result.ok,
                               [no_result |->
                                    "Initialize response has no result",
                                undecodable |->
                                    "Failed to parse initialize result"])
                   ELSE sent.result
        told == send_notification(sent.transport, sent.handled,
                                  create_initialized_notification, notified)
    IN  /\ op' = [name |-> "initialize"]
        /\ IF ~IsOk(decoded)
           THEN /\ transport' = sent.transport
                /\ handled' = sent.handled
                /\ ret' = decoded
                /\ UNCHANGED initialized
           ELSE /\ transport' = told.transport
                /\ handled' = told.handled
                /\ IF IsOk(told.result)
                   THEN /\ initialized' = TRUE
                        /\ ret' = decoded
                   ELSE /\ ret' = told.result
                        /\ UNCHANGED initialized
        /\ UNCHANGED <<mock_client, client_log>>

\* TestHarness::send_request
SendRequest(request, fate) ==
    LET sent == send_request(transport, handled, request, fate)
    IN  /\ transport' = sent.transport
        /\ handled' = sent.handled
        /\ op' = [name |-> "send_request", request |-> request]
        /\ ret' = sent.result
        /\ UNCHANGED <<initialized, mock_client, client_log>>

\* TestHarness::send_notification
SendNotification(notification, fate) ==
    LET told == send_notification(transport, handled, notification, fate)
    IN  /\ transport' = told.transport
        /\ handled' = told.handled
        /\ op' = [name |-> "send_notification", notification |-> notification]
        /\ ret' = told.result
        /\ UNCHANGED <<initialized, mock_client, client_log>>

\* the operations that check the flag first, with the request each builds
\* and the errors of its decoding
HigherLevel ==
    [call_tool |->
        [request |-> create_tool_call_request,
         no_result |-> "Tool response has no result",
         undecodable |-> "Failed to parse tool result"],
     read_resource |->
        [request |-> create_resource_read_request,
         no_result |-> "Resource response has no result",
         undecodable |-> "Failed to parse resource contents"],
     get_prompt |->
        [request |-> create_prompt_get_request,
         no_result |-> "Prompt response has no result",
         undecodable |-> "Failed to parse prompt result"],
     list_tools |->
        [request |-> create_list_tools_request,
         no_result |-> "List tools response has no result",
         undecodable |-> "Failed to parse tools list"]]

\* mutant: the flag is not looked at
CheckInitialized_Skipped(flag) == TRUE

\* if !self.initialized { return Err(..) }: whether the call goes on
CheckInitialized(flag) == flag

\* mutant: the flag is looked at after the request was sent
Call_SendThenCheck(name, fate) ==
    LET sent == send_request(transport, handled, HigherLevel[name].request,
                             fate)
    IN  /\ op' = [name |-> name]
        /\ transport' = sent.transport
        /\ handled' = sent.handled
        /\ ret' = IF ~initialized
                  THEN Err("protocol", "Server not initialized")
                  ELSE IF IsOk(sent.result)
                  THEN Decode(sent.result.ok, HigherLevel[name])
                  ELSE sent.result
        /\ UNCHANGED <<initialized, mock_client, client_log>>

\* TestHarness::call_tool / read_resource / get_prompt / list_tools
Call(name, fate) ==
    LET sent == send_request(transport, handled, HigherLevel[name].request,
                             fate)
    IN  /\ op' = [name |-> name]
        /\ IF ~CheckInitialized(initialized)
           THEN /\ ret' = Err("protocol", "Server not initialized")
                /\ UNCHANGED <<transport, handled>>
           ELSE /\ transport' = sent.transport
                /\ handled' = sent.handled
                /\ ret' = IF IsOk(sent.result)
                          THEN Decode(sent.result.ok, HigherLevel[name])
                          ELSE sent.result
        /\ UNCHANGED <<initialized, mock_client, client_log>>

\* mutant: the client keeps its id counter
HarnessReset_KeepsCounter ==
    /\ transport' = <<>>
    /\ request_queue' = <<>>
    /\ client_responses' = <<>>
    /\ client_info' = DefaultClientInfo
    /\ initialized' = FALSE
    /\ op' = [name |-> "reset"]
    /\ ret' = Unit
    /\ UNCHANGED <<id_counter, handled, client_log>>

\* TestHarness::reset
HarnessReset ==
    /\ transport' = <<>>
    /\ request_queue' = <<>>
    /\ client_responses' = <<>>
    /\ id_counter' = 1
    /\ client_info' = DefaultClientInfo
    /\ initialized' = FALSE
    /\ op' = [name |-> "reset"]
    /\ ret' = Unit
    /\ UNCHANGED <<handled, client_log>>

(***************************************************************************)
(* SpecHarness: a test sets up one TestHarness and calls its operations in *)
(* any order.                                                              *)
(***************************************************************************)
\* the request and the notification a test passes to send_request and
\* send_notification
HarnessRequests == {create_initialize_request}
HarnessNotifications == {create_initialized_notification}

\* the calls that are followed: the ones that leave the transport and the
\* record of the server short
Room == Len(transport') <= MaxTransport /\ Len(handled') <= MaxHandled

\* initialize sends the notification only after a request that met no
\* fault: for the other requests its fate is left at one value
InitializeFates ==
    {p \in Fates \X NotifyFates :
        p[1] # NoFault => p[2] = [write |-> TRUE, read |-> "message"]}

HarnessInitialize ==
    \E p \in InitializeFates :
        /\ Initialize(p[1], p[2])
        /\ Room
        /\ UNCHANGED <<server, fifo, repeat, callers, inspector>>

HarnessSendRequest ==
    \E request \in HarnessRequests, fate \in Fates :
        /\ SendRequest(request, fate)
        /\ Room
        /\ UNCHANGED <<server, fifo, repeat, callers, inspector>>

HarnessSendNotification ==
    \E notification \in HarnessNotifications, fate \in NotifyFates :
        /\ SendNotification(notification, fate)
        /\ Room
        /\ UNCHANGED <<server, fifo, repeat, callers, inspector>>

\* a call that is refused for the flag meets no transport and no server;
\* on a Ready harness the test calls call_tool and list_tools
HarnessCall ==
    \E name \in IF initialized THEN {"call_tool", "list_tools"}
                ELSE DOMAIN HigherLevel,
       fate \in IF initialized THEN Fates ELSE {NoFault} :
        /\ Call(name, fate)
        /\ Room
        /\ UNCHANGED <<server, fifo, repeat, callers, inspector>>

HarnessDoReset ==
    /\ HarnessReset
    /\ UNCHANGED <<server, fifo, repeat, callers, inspector>>

NextHarness ==
    \/ HarnessInitialize
    \/ HarnessSendRequest
    \/ HarnessSendNotification
    \/ HarnessCall
    \/ HarnessDoReset

SpecHarness == InitNew /\ [][NextHarness]_vars

(***************************************************************************)
(* SpecSession: a test sets up one TestHarness, brings it to Ready, calls  *)
(* the higher-level operations, queues requests in the client of the       *)
(* harness, and resets it.  The transport writes every message; the read   *)
(* of send_request and send_notification gives no message, the read of the *)
(* other operations the oldest message; the server answers every request.  *)
(***************************************************************************)
\* the call in which the message is written and the read gives no message
NoMessage ==
    [write |-> TRUE, read |-> "none", handler |-> "result", reply |-> TRUE]

NextSession ==
    /\ \/ Initialize(NoFault, [write |-> TRUE, read |-> "message"])
       \/ \E request \in HarnessRequests : SendRequest(request, NoMessage)
       \/ \E notification \in HarnessNotifications :
             SendNotification(notification,
                              [write |-> TRUE, read |-> "none"])
       \/ \E name \in {"call_tool", "read_resource", "list_tools"},
             handler \in IF initialized
                         THEN {"result", "undecodable", "no_result",
                               "malformed"}
                         ELSE {"result"} :
             Call(name, [NoFault EXCEPT !.handler = handler])
       \* harness.client.queue_request(mock_request(..))
       \/ /\ Len(enqueued) < MaxSessionQueued
          /\ QueueRequest(mock_request("tools/list"))
          /\ UNCHANGED test_harness
       \/ HarnessReset
    /\ Len(transport') <= MaxSessionTransport
    /\ Len(handled') <= MaxSessionHandled
    /\ UNCHANGED <<server, fifo, repeat, callers, inspector>>

SpecSession == InitNew /\ [][NextSession]_vars

(***************************************************************************)
(* A property of MockClient under SpecClient.                              *)
(***************************************************************************)
\* C36, as the claim states it: a call of queue_custom whose params fail to
\* serialize returns the error, enqueues nothing and leaves the request
\* queue, the recorded responses and the id counter as they were.
C36_FailedQueueCustomNoEffect ==
    [][(op'.name = "queue_custom" /\ ~IsOk(ret'))
         => /\ ret' = [err |-> "serde_json::Error"]
            /\ request_queue' = request_queue
            /\ client_responses' = client_responses
            /\ id_counter' = id_counter]_vars

(***************************************************************************)
(* Properties of TestHarness under SpecHarness.                            *)
(***************************************************************************)
\* the error of a call made before the harness is initialized
NotInitialized == Err("protocol", "Server not initialized")

\* the two operations that deliver a message and do not check the flag
DeliveryOps == {"send_request", "send_notification"}

\* C18, as the claim states it: while the harness is Uninitialized,
\* send_request, send_notification, call_tool, read_resource, get_prompt and
\* list_tools all fail with the precondition error.
C18_AllFailUninitialized ==
    [][~initialized /\ op'.name \in DOMAIN HigherLevel \cup DeliveryOps
         => ret' = NotInitialized]_vars

\* C18, amended: while the harness is Uninitialized, call_tool,
\* read_resource, get_prompt and list_tools fail with the precondition
\* error; send_request and send_notification do not look at the flag and
\* never return that error: their message is written and delivered as on a
\* Ready harness, and they return Ok when the transport and the server do
\* their part.
C18_HigherLevelFailUninitialized ==
    [][~initialized
         => /\ op'.name \in DOMAIN HigherLevel => ret' = NotInitialized
            /\ op'.name \in DeliveryOps
                 => /\ ret' # NotInitialized
                    /\ IsOk(ret') \/ ret'.err.kind \in
                            {"transport", "protocol", "handler"}
                    /\ IsOk(ret') => Len(handled') = Len(handled) + 1]_vars

\* send_request has just returned Ok on a harness that is Uninitialized
C18_Witness ==
    /\ ~initialized
    /\ op.name = "send_request"
    /\ IsOk(ret)
    /\ Len(handled) = 1

\* C19: call_tool, read_resource, get_prompt or list_tools on a harness
\* that is Uninitialized returns the precondition error, writes nothing to
\* the transport, gives nothing to the server, and leaves the harness
\* Uninitialized.
C19_FailFast ==
    [][~initialized /\ op'.name \in DOMAIN HigherLevel
         => /\ ret' = NotInitialized
            /\ transport' = transport
            /\ handled' = handled
            /\ ~initialized']_vars

\* get_prompt has just failed on a harness that is Uninitialized and whose
\* transport holds a message
C19_Witness ==
    /\ ~initialized
    /\ op.name = "get_prompt"
    /\ ret = NotInitialized
    /\ transport # <<>>

\* the server was given a request and then a notification during the step
BothDelivered ==
    /\ Len(handled') = Len(handled) + 2
    /\ SubSeq(handled', 1, Len(handled)) = handled
    /\ handled'[Len(handled) + 1].kind = "request"
    /\ handled'[Len(handled) + 2].kind = "notification"

\* the harness becomes Ready only in an initialize that returns Ok(result)
\* after the server answered a request with a result that decodes and took
\* a notification
ReadyOnlyAfterBoth ==
    ~initialized /\ initialized'
        => /\ op'.name = "initialize"
           /\ IsOk(ret')
           /\ ret'.ok.decodes
           /\ BothDelivered

\* C20, as the claim states it: an initialize that fails returns the error
\* and the harness is Uninitialized afterwards, and the harness becomes
\* Ready only after the initialize request and the initialized notification
\* both succeeded.
C20_FailedInitializeUninitialized ==
    [][/\ op'.name = "initialize" /\ ~IsOk(ret') => ~initialized'
       /\ ReadyOnlyAfterBoth]_vars

\* C20, amended: an initialize that fails returns the error and leaves the
\* flag as it was, so a harness that was Uninitialized is Uninitialized
\* afterwards and a harness that was Ready stays Ready; the harness becomes
\* Ready only after the initialize request and the initialized notification
\* both succeeded.
C20_FailedInitializeKeepsState ==
    [][/\ op'.name = "initialize" /\ ~IsOk(ret')
            => initialized' = initialized
       /\ ReadyOnlyAfterBoth]_vars

\* initialize has just failed at the notification, after the server
\* answered the request, and the harness is Uninitialized
C20_Witness ==
    /\ op.name = "initialize"
    /\ ~IsOk(ret)
    /\ ret.err.message \in {"Failed to write notification",
                            "Expected notification message"}
    /\ handled # <<>>
    /\ ~initialized

\* C21: when the server answers the initialize request of an Uninitialized
\* harness with a response whose result does not decode into the
\* initialize result (a required field such as serverInfo is missing),
\* initialize returns the protocol error of the decoding, sends no
\* notification, and the harness is Uninitialized afterwards.
C21_UndecodableInitialize ==
    [][\A p \in InitializeFates :
         LET sent == send_request(transport, handled,
                                  create_initialize_request, p[1])
         IN  (/\ ~initialized
              /\ Initialize(p[1], p[2])
              /\ IsOk(sent.result)
              /\ sent.result.ok.result # None
              /\ ~sent.result.ok.result[1].decodes)
             => /\ ret' = Err("protocol", "Failed to parse initialize result")
                /\ ~initialized'
                /\ transport' = sent.transport
                /\ handled' = sent.handled]_vars

\* initialize on a fresh harness has just failed at the decoding of the
\* result the server gave: the transport holds that response and nothing
\* else
C21_Witness ==
    /\ op.name = "initialize"
    /\ ret = Err("protocol", "Failed to parse initialize result")
    /\ ~initialized
    /\ handled = <<Message("request", create_initialize_request)>>
    /\ transport =
          <<Message("response",
                    success_value(create_initialize_request.id,
                                  [decodes |-> FALSE]))>>

\* C22, as the claim states it: on a fresh harness, with a transport that
\* gives the messages in the order written and a server that answers with
\* a result that decodes, initialize returns Ok and the harness is Ready;
\* call_tool on a Ready harness then passes the check of the flag and the
\* server is given the request of that call.
C22_FreshInitializeReady ==
    [][/\ (/\ transport = <<>>
           /\ ~initialized
           /\ Initialize(NoFault, [write |-> TRUE, read |-> "message"]))
          => IsOk(ret') /\ initialized'
       /\ (initialized /\ Call("call_tool", NoFault))
          => /\ ret' # NotInitialized
             /\ handled' = Append(handled,
                                   Message("request",
                                           create_tool_call_request))]_vars

\* C23, as the claim states it: a send_request that returns Ok has read the
\* reply back out of the transport, so a transport that was empty is empty
\* afterwards, and a send_notification that follows and meets no transport
\* failure reads the notification it has just written and returns Ok.
C23_ReplyReadBack ==
    [][/\ (transport = <<>> /\ op'.name = "send_request" /\ IsOk(ret'))
          => transport' = <<>>
       /\ \A notification \in HarnessNotifications :
            (/\ op.name = "send_request"
             /\ IsOk(ret)
             /\ SendNotification(notification,
                                 [write |-> TRUE, read |-> "message"]))
            => ret' = Ok(Unit)]_vars

\* C24: in send_request and send_notification, when the message was
\* written and the read gives no message, or gives a message of another
\* kind than the one written, the call returns an error (the transport
\* error "No message available", the protocol error "Expected request
\* message" or "Expected notification message"), the server is given
\* nothing, and the transport was written once and read at most once: it
\* holds the message written behind what it held, less the one message
\* read.
C24_InconsistencyFatal ==
    [][/\ \A request \in HarnessRequests, fate \in Fates :
            LET written == TransportWrite(transport,
                                          Message("request", request))
            IN  /\ (SendRequest(request, fate) /\ fate.write
                       /\ fate.read = "none")
                     => /\ ret' = Err("transport", "No message available")
                        /\ handled' = handled
                        /\ transport' = written
                /\ (SendRequest(request, fate) /\ fate.write
                       /\ fate.read = "message"
                       /\ Head(written).kind # "request")
                     => /\ ret' = Err("protocol", "Expected request message")
                        /\ handled' = handled
                        /\ transport' = Tail(written)
       /\ \A notification \in HarnessNotifications, fate \in NotifyFates :
            LET written == TransportWrite(transport,
                                          Message("notification",
                                                  notification))
            IN  /\ (SendNotification(notification, fate) /\ fate.write
                       /\ fate.read = "none")
                     => /\ ret' = Err("transport", "No message available")
                        /\ handled' = handled
                        /\ transport' = written
                /\ (SendNotification(notification, fate) /\ fate.write
                       /\ fate.read = "message"
                       /\ Head(written).kind # "notification")
                     => /\ ret' = Err("protocol",
                                       "Expected notification message")
                        /\ handled' = handled
                        /\ transport' = Tail(written)]_vars

\* send_notification has just read the response a send_request left in
\* the transport: it returned the error, the server was given the request
\* only, and the transport holds the notification
C24_Witness ==
    /\ op.name = "send_notification"
    /\ ret = Err("protocol", "Expected notification message")
    /\ Len(handled) = 1
    /\ handled[1].kind = "request"
    /\ transport = <<Message("notification", op.notification)>>

\* C26, as the claim states it: when the server answers the request of
\* send_request, call_tool, read_resource, get_prompt, list_tools or
\* initialize with a response that carries an ErrorObject, the value the
\* operation returns holds that ErrorObject, code, message and data.
C26_ErrorObjectVerbatim ==
    [][LET reported(sent) ==
               IsOk(sent.result) /\ sent.result.ok.error # None
           carries(result, response) ==
               IF IsOk(result)
               THEN /\ "error" \in DOMAIN result.ok
                    /\ result.ok.error = response.error
               ELSE /\ "error" \in DOMAIN result.err
                    /\ Some(result.err.error) = response.error
       IN  /\ \A request \in HarnessRequests, fate \in Fates :
                LET sent == send_request(transport, handled, request, fate)
                IN  (SendRequest(request, fate) /\ reported(sent))
                      => carries(ret', sent.result.ok)
           /\ \A p \in InitializeFates :
                LET sent == send_request(transport, handled,
                                         create_initialize_request, p[1])
                IN  (Initialize(p[1], p[2]) /\ reported(sent))
                      => carries(ret', sent.result.ok)
           /\ \A name \in DOMAIN HigherLevel, fate \in Fates :
                LET sent == send_request(transport, handled,
                                         HigherLevel[name].request, fate)
                IN  (initialized /\ Call(name, fate) /\ reported(sent))
                      => carries(ret', sent.result.ok)]_vars

\* C31: in a call of initialize the server is given a notification only
\* after it was given a request and answered it with a result that
\* decodes, and then nothing else: the call that delivers a notification
\* returns Ok with that result.  A call of initialize that returns an
\* error (the request failed, the response had no result, the result did
\* not decode, or the notification was not delivered) gave the server no
\* notification.
C31_NotificationAfterResult ==
    [][op'.name = "initialize"
         => LET new == SubSeq(handled', Len(handled) + 1, Len(handled'))
                notified == \E i \in DOMAIN new : new[i].kind = "notification"
            IN  /\ SubSeq(handled', 1, Len(handled)) = handled
                /\ notified
                     => /\ IsOk(ret')
                        /\ ret'.ok.decodes
                        /\ Len(new) = 2
                        /\ new[1].kind = "request"
                        /\ new[2].kind = "notification"
                /\ ~IsOk(ret') => ~notified /\ Len(new) <= 1]_vars

\* initialize has just returned Ok: the server was given one request and,
\* after it, one notification
C31_Witness ==
    /\ op.name = "initialize"
    /\ IsOk(ret)
    /\ initialized
    /\ Len(handled) = 2
    /\ handled[1].kind = "request"
    /\ handled[2] = Message("notification", create_initialized_notification)

\* C37: a Ready harness stays Ready until reset is called.  In every state
\* in which the harness is Ready, no call of initialize, send_request,
\* send_notification, call_tool, read_resource, get_prompt or list_tools,
\* whatever the transport and the server do during it and whatever it
\* returns, ends with the harness Uninitialized.
C37_ReadyUntilReset ==
    initialized =>
        /\ \A p \in Fates \X NotifyFates :
              ~ENABLED (Initialize(p[1], p[2]) /\ ~initialized')
        /\ \A request \in HarnessRequests, fate \in Fates :
              ~ENABLED (SendRequest(request, fate) /\ ~initialized')
        /\ \A notification \in HarnessNotifications, fate \in NotifyFates :
              ~ENABLED (SendNotification(notification, fate) /\ ~initialized')
        /\ \A name \in DOMAIN HigherLevel, fate \in Fates :
              ~ENABLED (Call(name, fate) /\ ~initialized')

\* C37 witness: a repeated initialize has failed and the harness is Ready
C37_Witness ==
    /\ op.name = "initialize"
    /\ ~IsOk(ret)
    /\ initialized

(***************************************************************************)
(* Properties of TestHarness under SpecSession.                            *)
(***************************************************************************)
\* C25, as the claim states it: when the server answers the request of
\* call_tool, read_resource, get_prompt or list_tools with a response that
\* carries an ErrorObject, the call returns an error of another kind than
\* the protocol error it returns for a response with neither a result nor
\* an error and for a result that does not decode.
C25_ErrorObjectDistinctKind ==
    [][\A name \in DOMAIN HigherLevel :
         LET answered(h) == [NoFault EXCEPT !.handler = h]
             sent == send_request(transport, handled,
                                  HigherLevel[name].request,
                                  answered("no_result"))
             broken(h) == Decode(HandlerResponse(HigherLevel[name].request, h),
                                 HigherLevel[name])
         IN  (/\ initialized
              /\ Call(name, answered("no_result"))
              /\ IsOk(sent.result)
              /\ sent.result.ok.error # None)
             => /\ ~IsOk(ret')
                /\ ret'.err.kind # broken("malformed").err.kind
                /\ ret'.err.kind # broken("undecodable").err.kind]_vars

\* C27: reset can be called in every reachable state; it leaves the
\* harness Uninitialized, the transport empty and the client as
\* MockClient::new builds it (empty queue, no responses, id counter 1).
\* While the harness is Uninitialized call_tool, read_resource, get_prompt
\* and list_tools fail with the precondition error, and the harness
\* leaves Uninitialized only by an initialize that returns Ok.
C27_ResetFresh ==
    [][/\ ENABLED HarnessReset
       /\ op'.name = "reset"
            => /\ ~initialized'
               /\ transport' = <<>>
               /\ request_queue' = <<>>
               /\ client_responses' = <<>>
               /\ id_counter' = 1
               /\ client_info' = DefaultClientInfo
       /\ (~initialized /\ op'.name \in DOMAIN HigherLevel)
            => ret' = NotInitialized /\ ~initialized'
       /\ (~initialized /\ initialized')
            => op'.name = "initialize" /\ IsOk(ret')]_vars

\* reset has just been called on a harness that was Ready (the server was
\* given the request and the notification of initialize and the request
\* of a call) and whose client had handed out an id
C27_Witness ==
    /\ op.name = "reset"
    /\ ~initialized
    /\ transport = <<>>
    /\ request_queue = <<>>
    /\ id_counter = 1
    /\ assigned_ids = <<JNum(1)>>
    /\ Len(handled) = 3
    /\ handled[2].kind = "notification"

\* C28, as the claim states it: the response send_request returns Ok with,
\* and the response call_tool, read_resource, get_prompt or list_tools
\* decodes its Ok result from, carries the id of the request of that call.
C28_ResponseIdIsRequestId ==
    [][/\ (op'.name = "send_request" /\ IsOk(ret'))
            => ret'.ok.id = Some(op'.request.id)
       /\ \A name \in DOMAIN HigherLevel,
             handler \in {"result", "undecodable", "no_result", "malformed"} :
            LET fate == [NoFault EXCEPT !.handler = handler]
                sent == send_request(transport, handled,
                                     HigherLevel[name].request, fate)
            IN  (/\ initialized
                 /\ Call(name, fate)
                 /\ IsOk(sent.result)
                 /\ IsOk(ret'))
                => sent.result.ok.id = Some(HigherLevel[name].request.id)]_vars

(***************************************************************************)
(* expect_requests and expect_request compared, under SpecRepeat.          *)
(***************************************************************************)
\* the expectations after expect_request(method, r) was called for each r
\* of responses, in order
RECURSIVE ExpectEach(_, _, _)
ExpectEach(exp, method, responses) ==
    IF responses = <<>> THEN exp
    ELSE ExpectEach(ExpectInsert(exp, method, Head(responses)), method,
                    Tail(responses))

NextConcurrent ==
    /\ \/ \E method \in Methods, response \in CannedResponses :
             \* the test queues an expectation before the callers start
             /\ \A c \in Callers : callers[c] = IdleCaller
             /\ Queued(expectations) < MaxSharedQueue
             /\ ExpectRequest(method, response)
             /\ fifo_added' = [fifo_added EXCEPT ![method] =
                                  Append(@, response)]
             /\ UNCHANGED <<fifo_calls, callers>>
       \/ \E handler \in DefaultHandlers :
             \* the test builds the server with a default handler
             /\ \A c \in Callers : callers[c] = IdleCaller
             /\ expectations = <<>>
             /\ default_response = None
             /\ WithDefaultResponse(handler)
             /\ UNCHANGED <<fifo, callers>>
       \/ \E c \in Callers, method \in Methods :
             \* caller c builds its request and waits for the mutex
             /\ callers[c].state = "idle"
             /\ callers' = [callers EXCEPT ![c] =
                    [@ EXCEPT !.state = "waiting",
                              !.request = Some(JsonRpcRequest(JNum(c), method,
                                                              None))]]
             /\ UNCHANGED <<server, fifo, op, ret>>
       \/ \E c \in Callers :
             \* server.lock().await: caller c is given the guard
             /\ callers[c].state = "waiting"
             /\ \A d \in Callers : callers[d].state # "holding"
             /\ callers' = [callers EXCEPT ![c].state = "holding"]
             /\ UNCHANGED <<server, fifo, op, ret>>
       \/ \E c \in Callers :
             \* guard.handle(request).await, and the guard is dropped
             /\ callers[c].state = "holding"
             /\ Handle(callers[c].request[1])
             /\ callers' = [callers EXCEPT ![c] =
                    [@ EXCEPT !.state = "done", !.response = Some(ret'),
                              !.tier = op'.tier]]
             /\ UNCHANGED fifo
    /\ UNCHANGED <<repeat, mock_client, client_log, test_harness, inspector>>

SpecConcurrent == InitNew /\ [][NextConcurrent]_vars

\* C35, as the claim states it: a call of send_request, made by the test or
\* by call_tool, read_resource, get_prompt or list_tools on a Ready
\* harness, gives the server at most one message; when the call returns Ok
\* that message is the request passed to the call, and when it returns a
\* transport error the server was given none.  A call of send_notification
\* that returns Ok gave the server the notification passed to it.
C35_HandlerGetsTheMessagePassed ==
    [][LET new == SubSeq(handled', Len(handled) + 1, Len(handled'))
           passed == IF op'.name = "send_request" THEN op'.request
                     ELSE HigherLevel[op'.name].request
       IN  /\ (\/ op'.name = "send_request"
               \/ op'.name \in DOMAIN HigherLevel /\ initialized)
                => /\ Len(new) <= 1
                   /\ IsOk(ret') => new = <<Message("request", passed)>>
                   /\ (~IsOk(ret') /\ ret'.err.kind = "transport")
                        => new = <<>>
           /\ (op'.name = "send_notification" /\ IsOk(ret'))
                => new = <<Message("notification", op'.notification)>>]_vars

(***************************************************************************)
(* Properties of MockServer under SpecConcurrent.                          *)
(***************************************************************************)
\* C29, as the claim states it: whatever the order in which the callers
\* are given the mutex, at most one caller runs handle at a time, every
\* expectation that was queued is either still queued or was returned to
\* exactly one caller, every request of a caller that has returned is in
\* the received log exactly once and the log holds nothing else, and the
\* response a caller was returned carries the id of its own request.
C29_AtomicPairs ==
    LET done == {c \in Callers : callers[c].state = "done"}
        Count(seq, x) == Cardinality({i \in DOMAIN seq : seq[i] = x})
        payload(response) == [response EXCEPT !.id = None]
        served(m, r) ==
            {c \in done : /\ callers[c].tier = "expectation"
                          /\ callers[c].request[1].method = m
                          /\ payload(callers[c].response[1]) = payload(r)}
    IN  /\ Cardinality({c \in Callers : callers[c].state = "holding"}) <= 1
        /\ \A m \in Methods, r \in CannedResponses :
              Count(fifo_added[m], r)
                = Count(QueueOf(expectations, m), r) + Cardinality(served(m, r))
        /\ Len(received_requests) = Cardinality(done)
        /\ \A c \in done :
              Count(received_requests, callers[c].request[1]) = 1
        /\ \A c \in done :
              callers[c].response[1].id = Some(callers[c].request[1].id)

(***************************************************************************)
(* The inspector (src/mcp-inspector/src): the handlers of /connect,        *)
(* /disconnect, /status, /tools and /ws run as tasks of one runtime and    *)
(* share one AppState.  Each field of the AppState is behind its own        *)
(* tokio RwLock.  A statement `*lock.write().await = v` waits until no      *)
(* guard of the lock is held, assigns, and drops its guard at the end of    *)
(* the statement: it is one step.  A read guard bound to a local is held    *)
(* until the local goes out of scope, over every await in between.          *)
(***************************************************************************)
\* the read guards held on AppState.client: list_tools keeps
\* `let client = state.client.read().await` over client.list_tools().await
ClientReadGuards == {r \in InspectorRequests : requests[r].at = "list_tools"}

\* the read guards held on AppState.connection_info: handle_socket keeps
\* `let connection_info = state.connection_info.read().await` until it
\* returns
InfoReadGuards == {s \in Sockets : sockets[s] = "open"}

\* connect and disconnect: `*state.client.write().await = ..`
StoreClient(r) ==
    /\ requests[r].at = "store_client"
    /\ ClientReadGuards = {}
    /\ client' = IF requests[r].handler = "connect" THEN Some(r) ELSE None
    /\ requests' = [requests EXCEPT ![r].at = "store_info"]
    /\ UNCHANGED <<connection_info, sockets>>

\* connect and disconnect: `*state.connection_info.write().await = ..`, and
\* the response
StoreInfo(r) ==
    /\ requests[r].at = "store_info"
    /\ InfoReadGuards = {}
    /\ connection_info' =
           IF requests[r].handler = "connect" THEN Some(r) ELSE None
    /\ requests' = [requests EXCEPT
                       ![r].at = "idle",
                       ![r].response =
                           IF requests[r].handler = "connect"
                           THEN "Connected successfully" ELSE "Disconnected"]
    /\ UNCHANGED <<client, sockets>>

\* list_tools: client.list_tools().await has returned, and the guard is
\* dropped with the response
ListToolsReturn(r) ==
    /\ requests[r].at = "list_tools"
    /\ requests' = [requests EXCEPT ![r].at = "idle", ![r].response = "tools"]
    /\ UNCHANGED <<client, connection_info, sockets>>

\* the steps of the inspector: requests arrive and are served, WebSockets
\* are opened and closed by their peers
NextInspector ==
    /\ \/ \E r \in InspectorRequests :
             /\ requests[r].at = "idle"
             /\ \* connect: InspectorClient::connect fails, or gives a client
                \/ requests' =
                       [requests EXCEPT
                           ![r] = [handler |-> "connect", at |-> "idle",
                                   response |-> "Failed to connect"]]
                \/ requests' =
                       [requests EXCEPT
                           ![r] = [handler |-> "connect",
                                   at |-> "store_client",
                                   response |-> "none"]]
                \* disconnect
                \/ requests' =
                       [requests EXCEPT
                           ![r] = [handler |-> "disconnect",
                                   at |-> "store_client",
                                   response |-> "none"]]
                \* status: connection_info.read(), dropped with the match
                \/ requests' =
                       [requests EXCEPT
                           ![r] = [handler |-> "status", at |-> "idle",
                                   response |->
                                       IF connection_info # None
                                       THEN "info" ELSE "NOT_FOUND"]]
                \* list_tools: client.read(), then ok_or(..)? or the call
                \/ requests' =
                       [requests EXCEPT
                           ![r] = IF client = None
                                  THEN [handler |-> "list_tools",
                                        at |-> "idle",
                                        response |-> "SERVICE_UNAVAILABLE"]
                                  ELSE [handler |-> "list_tools",
                                        at |-> "list_tools",
                                        response |-> "none"]]
             /\ UNCHANGED <<client, connection_info, sockets>>
       \/ \E r \in InspectorRequests : StoreClient(r)
       \/ \E r \in InspectorRequests : StoreInfo(r)
       \/ \E r \in InspectorRequests : ListToolsReturn(r)
       \* handle_socket: connection_info.read() and the status message
       \/ \E s \in Sockets :
             /\ sockets[s] = "closed"
             /\ sockets' = [sockets EXCEPT ![s] = "open"]
             /\ UNCHANGED <<client, connection_info, requests>>
       \* handle_socket returns: the peer has closed, or recv has failed
       \/ \E s \in Sockets :
             /\ sockets[s] = "open"
             /\ sockets' = [sockets EXCEPT ![s] = "closed"]
             /\ UNCHANGED <<client, connection_info, requests>>
    /\ UNCHANGED <<server, op, fifo, repeat, mock_client, client_log,
                   test_harness, callers, ret>>

SpecInspector == InitNew /\ [][NextInspector]_vars

\* the runtime polls a task that can go on, so that the call of list_tools
\* returns, and the RwLock of tokio is fair: it serves its waiters in the
\* order they came, so a writer gets the lock once the guards held when it
\* came are dropped, however many readers come after it.  Nothing makes a
\* request arrive, and nothing makes the peer of a WebSocket close it.
SpecInspectorLive ==
    /\ SpecInspector
    /\ \A r \in InspectorRequests :
          /\ SF_inspector(StoreClient(r))
          /\ SF_inspector(StoreInfo(r))
          /\ WF_inspector(ListToolsReturn(r))

(***************************************************************************)
(* Properties of the inspector under SpecInspector and SpecInspectorLive.  *)
(***************************************************************************)
\* C39, as the claim states it: whenever no connect and no disconnect is in
\* progress, the client is stored if and only if the connection info is.
C39_ClientIffConnectionInfo ==
    (\A r \in InspectorRequests :
        requests[r].at \notin {"store_client", "store_info"})
        => (client # None <=> connection_info # None)

\* C40, as the claim states it: a connect or disconnect that is in progress
\* completes.
C40_ConnectCompletes ==
    \A r \in InspectorRequests :
        (requests[r].at \in {"store_client", "store_info"})
            ~> (requests[r].at = "idle")

====
